---- MODULE Spec2Model ----
(***************************************************************************)
(* A model of the sqlite extension bridge (go.riyazali.net/sqlite):        *)
(*   - the blocking-wait coordinator (unlock_notify.c) and Stmt.step       *)
(*     (vendor_fix.go);                                                    *)
(*   - the handle registry as used by the function, collation, module,     *)
(*     table and cursor trampolines (func.go, virtual table source);       *)
(*   - the aggregate context store and the Sum window aggregate            *)
(*     (func.go, func_window_test.go);                                     *)
(*   - the virtual-table protocol: CreateModule with its options and the   *)
(*     trampolines the engine calls on a table and its cursor;             *)
(*   - the lock discipline of the aggregate context store when threads     *)
(*     run trampolines concurrently (func.go);                             *)
(*   - the extension entry point and the commit and rollback hooks         *)
(*     (extension.go);                                                     *)
(*   - the arguments and the text result of one callback invocation        *)
(*     (toValues and Context.ResultText, func.go);                         *)
(*   - the csv example's cursor (_examples/csv/csv.go);                    *)
(*   - Conn.Exec with its deferred Finalize.                               *)
(* Each part has its own specification; the variables of the other parts   *)
(* stay at their initial values.                                           *)
(***************************************************************************)
EXTENDS Integers, Sequences, FiniteSets, TLC

VARIABLES
    \* ---- blocking-wait coordinator: the _unlock_note of one connection
    fired,      \* _unlock_note.fired
    mu,         \* owner of _unlock_note.mu: "free", "waiter" or "notifier"
    pc,         \* position of the thread driving Stmt.Step
    res,        \* the local `res` of Stmt.step (last status of sqlite3_step / wait)
    ret,        \* what Stmt.step returned: [row, err]
    pending,    \* the engine holds an armed unlock-notify callback for the connection
    npc,        \* position of the engine thread running _unlock_notify_cb
    stepCalls,  \* number of sqlite3_step calls made so far
    waitCalls,  \* number of wait_for_unlock_notify calls made so far
    wokenBy,    \* what ended the last pthread_cond_wait: "none", "signal", "spurious"
    bindErr,    \* Stmt.bindErr: the pending bind error (SQLITE_OK: nil)
    bindLog,    \* what each Bind*/Set* call since the last Step ran into, in order
    native,     \* the native calls the current (or latest) Stmt.Step made on the statement
    aggregateDataLock, \* the RWMutex of the aggregate context store: [w, r], who holds it
    \* ---- handle registry and the native objects that hold handles
    store,      \* the registry: address -> saved value (Nil when the address is free)
    objs,       \* every handle minted so far, in order, with what became of it
    last,       \* the latest restore a trampoline made: [obj, got]
    stale,      \* some trampoline restored a handle after it had been unref'ed
    \* ---- aggregate context store and the groups the engine evaluates
    aggregateDataStore, \* context pointer -> accumulator (NilData: no entry)
    aggCtx,     \* per group: the engine has allocated its aggregate context
    frame,      \* per group: the values stepped and not yet inverted, oldest first
    ops,        \* per group: step and inverse calls made on it so far
    ref,        \* per group: the accumulator the steps and inverses alone produce
    peeked,     \* per group: "value" once Value ran after a step, "between" once a step followed
    lastCall,   \* the latest aggregate trampoline call and what it reported
    pre,        \* the accumulator of lastCall's group just before that call
    crashed,    \* a panic left a trampoline: the process is gone
    series,     \* per group: the rows a test query feeds it, in order (<<>>: any rows)
    \* ---- one virtual-table module, its table and the calls the engine makes on them
    sqliteModule, \* what CreateModule registered: the options and the sqlite3_module slots
    vtab,       \* the native go_virtual_table of the module's table, with its zErrMsg
    lost,       \* a message string the bridge allocated is referenced by nothing any more
    vcall,      \* the latest call the engine made into a virtual-table trampoline
    aborted,    \* a panic left a virtual-table trampoline: the process is gone
    \* ---- the threads that run aggregate trampolines concurrently
    th,         \* per thread: the trampoline it runs and where it is in an accessor
    \* ---- the extension entry point and the hooks of one connection
    extension,  \* the function Register stored: what it returns, [code, err]
    commitArg,  \* the argument the engine holds for the commit hook (Nil: no hook)
    rollbackArg, \* the argument the engine holds for the rollback hook (Nil: no hook)
    extCall,    \* the latest call of this part and what came of it
    \* ---- the arguments and the result of one callback invocation
    values,     \* the latest toValues call: its caller, its count and what it returned
    result,     \* the latest write to the result sink and the value the engine holds
    \* ---- the csv example: one table and one cursor over its file
    csvTable,   \* the CsvVirtualTable: the lines of its file and skipHeader
    csvCursor,  \* the CsvCursor: its reader, current row and rowid
    csvScan,    \* the positioning calls made on the open cursor
    \* ---- one call of Conn.Exec
    exec        \* where the call stands, its statement, the rows and the errors so far

waitVars ==
    <<fired, mu, pc, res, ret, pending, npc, stepCalls, waitCalls, wokenBy,
      bindErr, bindLog, native, aggregateDataLock>>
regVars == <<store, objs, last, stale>>

aggVars == <<aggregateDataStore, aggCtx, frame, ops, ref, peeked, lastCall, pre, crashed, series>>

vtabVars == <<sqliteModule, vtab, lost, vcall, aborted>>

lockVars == <<th>>

extVars == <<extension, commitArg, rollbackArg, extCall>>

callVars == <<values, result>>

csvVars == <<csvTable, csvCursor, csvScan>>

execVars == <<exec>>

vars == <<waitVars, regVars, aggVars, vtabVars, lockVars, extVars, callVars, csvVars, execVars>>

\* what the actions of one part leave alone
notWait == <<regVars, aggVars, vtabVars, lockVars, extVars, callVars, csvVars, execVars>>
notReg == <<waitVars, aggVars, vtabVars, lockVars, extVars, callVars, csvVars, execVars>>
notAgg == <<waitVars, regVars, vtabVars, lockVars, extVars, callVars, csvVars, execVars>>
notVtab == <<waitVars, regVars, aggVars, lockVars, extVars, callVars, csvVars, execVars>>
notExt == <<waitVars, aggVars, vtabVars, lockVars, last, stale, callVars, csvVars, execVars>>
notCall == <<waitVars, regVars, aggVars, vtabVars, lockVars, extVars, csvVars, execVars>>
notCsv == <<waitVars, regVars, aggVars, vtabVars, lockVars, extVars, callVars, execVars>>
notExec == <<waitVars, regVars, aggVars, vtabVars, lockVars, extVars, callVars, csvVars>>
notLock ==
    <<fired, mu, pc, res, ret, pending, npc, stepCalls, waitCalls, wokenBy,
      bindErr, bindLog, native, regVars, frame, ops, ref, peeked, lastCall, pre,
      crashed, series, vtabVars, extVars, callVars, csvVars, execVars>>

(***************************************************************************)
(* Status codes (sqlite3.h values; the primary code is the low byte).      *)
(***************************************************************************)
SQLITE_OK == 0
SQLITE_ERROR == 1
SQLITE_LOCKED == 6
SQLITE_NOMEM == 7
SQLITE_ROW == 100
SQLITE_DONE == 101
SQLITE_LOCKED_SHAREDCACHE == 262
SQLITE_LOCKED_VTAB == 518

\* uint8(res): "reduce to non-extended error code"
Primary(r) == r % 256

\* bound: the number of sqlite3_step calls the model follows
MaxStepCalls == 3

\* statuses sqlite3_step hands back in the model
StepResults ==
    {SQLITE_ROW, SQLITE_DONE, SQLITE_ERROR, SQLITE_LOCKED,
     SQLITE_LOCKED_SHAREDCACHE, SQLITE_LOCKED_VTAB}

NoRet == [row |-> FALSE, err |-> -1]

(***************************************************************************)
(* Stmt.step and _wait_for_unlock_notify, one action per statement.        *)
(***************************************************************************)

\* bound: the Bind*/Set* calls between two Steps the model follows
MaxBinds == 2

\* what the native sqlite3_bind_* calls hand back in the model
BindResults == {SQLITE_OK, SQLITE_NOMEM}

\* a buggy handleBindErr that keeps the latest failure
handleBindErr_keeps_last(b, r) == IF r # SQLITE_OK THEN r ELSE b

\* Stmt.handleBindErr(res): the first failure stays
handleBindErr(b, r) == IF r # SQLITE_OK /\ b = SQLITE_OK THEN r ELSE b

\* Stmt.findBindName(param): an unknown name gives position 0 and
\* SQLITE_ERROR, unless an error is pending already
findBindName(b, known) == IF ~known /\ b = SQLITE_OK THEN SQLITE_ERROR ELSE b

\* the first failure in a log of bind calls (SQLITE_OK: none)
RECURSIVE FirstFailure(_)
FirstFailure(log) ==
    IF log = <<>> THEN SQLITE_OK
    ELSE IF Head(log) # SQLITE_OK THEN Head(log)
    ELSE FirstFailure(Tail(log))

\* Stmt.BindInt64, BindBool, BindBytes, ...: the native bind, then
\* handleBindErr. The caller is done with the result of the Step before.
Stmt_Bind ==
    /\ pc = "idle"
    /\ Len(bindLog) < MaxBinds
    /\ \E r \in BindResults :
        /\ bindErr' = handleBindErr(bindErr, r)
        /\ bindLog' = Append(bindLog, r)
    /\ ret' = NoRet
    /\ native' = <<>>
    /\ UNCHANGED <<fired, mu, pc, res, pending, npc, stepCalls, waitCalls, wokenBy>>
    /\ UNCHANGED aggregateDataLock
    /\ UNCHANGED notWait

\* Stmt.SetInt64, SetBool, SetBytes, ...: findBindName, then the Bind of the
\* position found; the native bind of position 0 fails
Stmt_Set ==
    /\ pc = "idle"
    /\ Len(bindLog) < MaxBinds
    /\ \E known \in BOOLEAN, r \in BindResults :
        /\ ~known => r # SQLITE_OK
        /\ bindErr' = handleBindErr(findBindName(bindErr, known), r)
        /\ bindLog' = Append(bindLog, IF known THEN r ELSE SQLITE_ERROR)
    /\ ret' = NoRet
    /\ native' = <<>>
    /\ UNCHANGED <<fired, mu, pc, res, pending, npc, stepCalls, waitCalls, wokenBy>>
    /\ UNCHANGED aggregateDataLock
    /\ UNCHANGED notWait

\* the Step in progress took the pending-bind-error path: its first native
\* call is the sqlite3_reset of Stmt.Reset
InReset == native # <<>> /\ native[1] = "reset"

\* Stmt.Step: a pending bind error is taken and cleared and Stmt.Reset is
\* called; otherwise stmt.step() is called
Stmt_Step_enter ==
    /\ pc = "idle"
    /\ IF bindErr # SQLITE_OK
         THEN /\ ret' = [row |-> FALSE, err |-> bindErr]
              /\ bindErr' = SQLITE_OK
              /\ pc' = "reset"
         ELSE /\ stepCalls < MaxStepCalls
              /\ ret' = NoRet
              /\ pc' = "step"
              /\ UNCHANGED bindErr
    /\ bindLog' = <<>>
    /\ native' = <<>>
    /\ UNCHANGED <<fired, mu, res, pending, npc, stepCalls, waitCalls, wokenBy>>
    /\ UNCHANGED aggregateDataLock
    /\ UNCHANGED notWait

\* statuses sqlite3_reset hands back in the model
ResetResults == {SQLITE_OK, SQLITE_ERROR, SQLITE_LOCKED_SHAREDCACHE}

\* Stmt.Reset: res = C._sqlite3_reset(stmt.stmt); anything but
\* SQLITE_LOCKED_SHAREDCACHE ends the loop, and Step returns the bind error
Stmt_Reset_call ==
    /\ pc = "reset"
    /\ \E r \in ResetResults :
        /\ r = SQLITE_LOCKED_SHAREDCACHE => waitCalls < MaxStepCalls
        /\ res' = r
        /\ native' = Append(native, "reset")
        /\ IF r # SQLITE_LOCKED_SHAREDCACHE
             THEN pc' = "done" /\ UNCHANGED waitCalls
             ELSE pc' = "w_clear" /\ waitCalls' = waitCalls + 1
    /\ UNCHANGED <<fired, mu, ret, pending, npc, stepCalls, wokenBy, bindErr, bindLog>>
    /\ UNCHANGED aggregateDataLock
    /\ UNCHANGED notWait

\* Stmt.Reset after wait_for_unlock_notify: an error ends Reset, else it loops
Stmt_Reset_after_wait ==
    /\ pc = "w_ret"
    /\ InReset
    /\ IF res # SQLITE_OK
         THEN /\ pc' = "done"
              /\ native' = Append(native, "wait_fail")
         ELSE /\ pc' = "reset"
              /\ native' = Append(native, "wait_ok")
    /\ UNCHANGED <<fired, mu, res, ret, pending, npc, stepCalls, waitCalls, wokenBy>>
    /\ UNCHANGED <<bindErr, bindLog>>
    /\ UNCHANGED aggregateDataLock
    /\ UNCHANGED notWait

\* res := C._sqlite3_step(stmt.stmt)
Stmt_step_call ==
    /\ pc = "step"
    /\ \E r \in StepResults :
        /\ res' = r
        /\ stepCalls' = stepCalls + 1
        /\ pc' = "switch"
        /\ native' = Append(native, "step")
    /\ UNCHANGED <<fired, mu, ret, pending, npc, waitCalls, wokenBy>>
    /\ UNCHANGED <<bindErr, bindLog>>
    /\ UNCHANGED aggregateDataLock
    /\ UNCHANGED notWait

\* a buggy switch: every status whose primary code is SQLITE_LOCKED waits
Stmt_step_switch_waits_any_locked ==
    /\ pc = "switch"
    /\ IF Primary(res) = SQLITE_LOCKED
         THEN /\ pc' = "w_clear"
              /\ waitCalls' = waitCalls + 1
              /\ ret' = ret
         ELSE /\ pc' = "done"
              /\ ret' = IF Primary(res) = SQLITE_ROW THEN [row |-> TRUE, err |-> SQLITE_OK]
                        ELSE IF Primary(res) = SQLITE_DONE THEN [row |-> FALSE, err |-> SQLITE_OK]
                        ELSE [row |-> FALSE, err |-> res]
              /\ waitCalls' = waitCalls
    /\ UNCHANGED <<fired, mu, res, pending, npc, stepCalls, wokenBy>>
    /\ UNCHANGED <<bindErr, bindLog, native>>
    /\ UNCHANGED aggregateDataLock
    /\ UNCHANGED notWait

\* switch uint8(res) { case SQLITE_LOCKED: ... case SQLITE_ROW: ... }
Stmt_step_switch ==
    /\ pc = "switch"
    /\ IF Primary(res) = SQLITE_LOCKED
         THEN IF res # SQLITE_LOCKED_SHAREDCACHE
                THEN /\ pc' = "done"
                     /\ ret' = [row |-> FALSE, err |-> res]
                     /\ waitCalls' = waitCalls
                ELSE /\ pc' = "w_clear"
                     /\ waitCalls' = waitCalls + 1
                     /\ ret' = ret
         ELSE /\ pc' = "done"
              /\ ret' = IF Primary(res) = SQLITE_ROW THEN [row |-> TRUE, err |-> SQLITE_OK]
                        ELSE IF Primary(res) = SQLITE_DONE THEN [row |-> FALSE, err |-> SQLITE_OK]
                        ELSE [row |-> FALSE, err |-> res]
              /\ waitCalls' = waitCalls
    /\ UNCHANGED <<fired, mu, res, pending, npc, stepCalls, wokenBy>>
    /\ UNCHANGED <<bindErr, bindLog, native>>
    /\ UNCHANGED aggregateDataLock
    /\ UNCHANGED notWait

\* un->fired = 0;   (written without the mutex)
wait_clear ==
    /\ pc = "w_clear"
    /\ fired' = 0
    /\ wokenBy' = "none"
    /\ pc' = "w_arm"
    /\ UNCHANGED <<mu, res, ret, pending, npc, stepCalls, waitCalls>>
    /\ UNCHANGED <<bindErr, bindLog, native>>
    /\ UNCHANGED aggregateDataLock
    /\ UNCHANGED notWait

\* a buggy wait that goes on to the mutex although arming failed
wait_arm_locks_anyway ==
    /\ pc = "w_arm"
    /\ \/ /\ res' = SQLITE_LOCKED
          /\ pc' = "w_lock"
          /\ UNCHANGED <<fired, pending>>
       \/ /\ mu = "free"
          /\ fired' = 1
          /\ pending' = FALSE
          /\ res' = SQLITE_OK
          /\ pc' = "w_lock"
       \/ /\ pending' = TRUE
          /\ res' = SQLITE_OK
          /\ pc' = "w_lock"
          /\ UNCHANGED fired
    /\ UNCHANGED <<mu, ret, npc, stepCalls, waitCalls, wokenBy>>
    /\ UNCHANGED <<bindErr, bindLog, native>>
    /\ UNCHANGED aggregateDataLock
    /\ UNCHANGED notWait

\* res = sqlite3_unlock_notify(db, _unlock_notify_cb, un): the engine refuses
\* (deadlock detected: SQLITE_LOCKED), or the blocking connection has already
\* finished and the callback runs inside the call, or the callback is armed.
wait_arm ==
    /\ pc = "w_arm"
    /\ \/ /\ res' = SQLITE_LOCKED
          /\ pc' = "w_ret"
          /\ UNCHANGED <<fired, pending>>
       \/ /\ mu = "free"              \* the callback's _unlock_note_fire, run by this thread
          /\ fired' = 1
          /\ pending' = FALSE
          /\ res' = SQLITE_OK
          /\ pc' = "w_lock"
       \/ /\ pending' = TRUE
          /\ res' = SQLITE_OK
          /\ pc' = "w_lock"
          /\ UNCHANGED fired
    /\ UNCHANGED <<mu, ret, npc, stepCalls, waitCalls, wokenBy>>
    /\ UNCHANGED <<bindErr, bindLog, native>>
    /\ UNCHANGED aggregateDataLock
    /\ UNCHANGED notWait

\* pthread_mutex_lock(&un->mu);
wait_lock ==
    /\ pc = "w_lock"
    /\ mu = "free"
    /\ mu' = "waiter"
    /\ pc' = "w_check"
    /\ UNCHANGED <<fired, res, ret, pending, npc, stepCalls, waitCalls, wokenBy>>
    /\ UNCHANGED <<bindErr, bindLog, native>>
    /\ UNCHANGED aggregateDataLock
    /\ UNCHANGED notWait

\* a buggy wait that blocks without releasing the mutex
wait_check_keeps_mutex ==
    /\ pc = "w_check"
    /\ IF fired = 0
         THEN /\ pc' = "w_cond"
              /\ mu' = mu
         ELSE /\ pc' = "w_unlock"
              /\ mu' = mu
    /\ UNCHANGED <<fired, res, ret, pending, npc, stepCalls, waitCalls, wokenBy>>
    /\ UNCHANGED <<bindErr, bindLog, native>>
    /\ UNCHANGED aggregateDataLock
    /\ UNCHANGED notWait

\* if (!un->fired) pthread_cond_wait(&un->cond, &un->mu);  -- the wait releases the mutex
wait_check ==
    /\ pc = "w_check"
    /\ IF fired = 0
         THEN /\ pc' = "w_cond"
              /\ mu' = "free"
         ELSE /\ pc' = "w_unlock"
              /\ mu' = mu
    /\ UNCHANGED <<fired, res, ret, pending, npc, stepCalls, waitCalls, wokenBy>>
    /\ UNCHANGED <<bindErr, bindLog, native>>
    /\ UNCHANGED aggregateDataLock
    /\ UNCHANGED notWait

\* pthread_cond_wait may return without a signal (POSIX spurious wake-up)
cond_wait_spurious ==
    /\ pc = "w_cond"
    /\ pc' = "w_relock"
    /\ wokenBy' = "spurious"
    /\ UNCHANGED <<fired, mu, res, ret, pending, npc, stepCalls, waitCalls>>
    /\ UNCHANGED <<bindErr, bindLog, native>>
    /\ UNCHANGED aggregateDataLock
    /\ UNCHANGED notWait

\* pthread_cond_wait re-acquires the mutex before it returns
wait_relock ==
    /\ pc = "w_relock"
    /\ mu = "free"
    /\ mu' = "waiter"
    /\ pc' = "w_unlock"
    /\ UNCHANGED <<fired, res, ret, pending, npc, stepCalls, waitCalls, wokenBy>>
    /\ UNCHANGED <<bindErr, bindLog, native>>
    /\ UNCHANGED aggregateDataLock
    /\ UNCHANGED notWait

\* pthread_mutex_unlock(&un->mu); return res;
wait_unlock ==
    /\ pc = "w_unlock"
    /\ mu' = "free"
    /\ pc' = "w_ret"
    /\ UNCHANGED <<fired, res, ret, pending, npc, stepCalls, waitCalls, wokenBy>>
    /\ UNCHANGED <<bindErr, bindLog, native>>
    /\ UNCHANGED aggregateDataLock
    /\ UNCHANGED notWait

\* a buggy retry that steps again without resetting the statement
Stmt_step_after_wait_no_reset ==
    /\ pc = "w_ret"
    /\ ~InReset
    /\ IF res # SQLITE_OK
         THEN /\ pc' = "done"
              /\ ret' = [row |-> FALSE, err |-> res]
              /\ native' = Append(native, "wait_fail")
         ELSE /\ stepCalls < MaxStepCalls
              /\ pc' = "step"
              /\ ret' = ret
              /\ native' = Append(native, "wait_ok")
    /\ UNCHANGED <<fired, mu, res, pending, npc, stepCalls, waitCalls, wokenBy>>
    /\ UNCHANGED <<bindErr, bindLog>>
    /\ UNCHANGED aggregateDataLock
    /\ UNCHANGED notWait

\* if res = wait_for_unlock_notify(...); res != SQLITE_OK { return false, ErrorCode(res) }
\* C._sqlite3_reset(stmt.stmt)  // loop
Stmt_step_after_wait ==
    /\ pc = "w_ret"
    /\ ~InReset
    /\ IF res # SQLITE_OK
         THEN /\ pc' = "done"
              /\ ret' = [row |-> FALSE, err |-> res]
              /\ native' = Append(native, "wait_fail")
         ELSE /\ stepCalls < MaxStepCalls
              /\ pc' = "step"
              /\ ret' = ret
              /\ native' = native \o <<"wait_ok", "reset">>
    /\ UNCHANGED <<fired, mu, res, pending, npc, stepCalls, waitCalls, wokenBy>>
    /\ UNCHANGED <<bindErr, bindLog>>
    /\ UNCHANGED aggregateDataLock
    /\ UNCHANGED notWait

\* a buggy Step that returns the error of stmt.step() without the reset
Stmt_Step_return_no_reset ==
    /\ pc = "done"
    /\ pc' = "idle"
    /\ UNCHANGED <<fired, mu, res, ret, pending, npc, stepCalls, waitCalls, wokenBy>>
    /\ UNCHANGED <<bindErr, bindLog, native>>
    /\ UNCHANGED aggregateDataLock
    /\ UNCHANGED notWait

\* Stmt.Step returns: after Stmt.Reset the bind error; after stmt.step() its
\* result, with C._sqlite3_reset(stmt.stmt) first when it is an error
Stmt_Step_return ==
    /\ pc = "done"
    /\ pc' = "idle"
    /\ native' = IF ~InReset /\ ret.err # SQLITE_OK THEN Append(native, "reset") ELSE native
    /\ UNCHANGED <<fired, mu, res, ret, pending, npc, stepCalls, waitCalls, wokenBy>>
    /\ UNCHANGED <<bindErr, bindLog>>
    /\ UNCHANGED aggregateDataLock
    /\ UNCHANGED notWait

(***************************************************************************)
(* aggregateDataLock (sync.RWMutex) as the threads of the two connections  *)
(* use it: the engine calls the trampolines of a registered function while *)
(* a thread is inside sqlite3_step; AggregateContext.Data holds the read   *)
(* lock, SetData and the eviction of the final trampoline the write lock,  *)
(* each until it returns.                                                  *)
(***************************************************************************)

NoThread == "none"
Unlocked == [w |-> NoThread, r |-> {}]
LockModes == {"r", "w"}

Holders(l) == l.r \cup (IF l.w = NoThread THEN {} ELSE {l.w})

\* RLock waits for a writer; Lock waits for every holder
CanAcquire(l, mode) ==
    IF mode = "r" THEN l.w = NoThread ELSE l.w = NoThread /\ l.r = {}

Acquire(l, t, mode) ==
    IF mode = "r" THEN [l EXCEPT !.r = @ \cup {t}] ELSE [l EXCEPT !.w = t]

\* the deferred RUnlock / Unlock
Release(l, t) ==
    [w |-> IF l.w = t THEN NoThread ELSE l.w, r |-> l.r \ {t}]

\* inside sqlite3_step the engine calls a trampoline on the stepping thread,
\* which takes the lock in Data, SetData or the final trampoline's eviction
step_tramp_lock ==
    /\ pc = "step"
    /\ \E mode \in LockModes :
        /\ CanAcquire(aggregateDataLock, mode)
        /\ aggregateDataLock' = Acquire(aggregateDataLock, "waiter", mode)
    /\ pc' = "tramp"
    /\ UNCHANGED <<fired, mu, res, ret, pending, npc, stepCalls, waitCalls, wokenBy>>
    /\ UNCHANGED <<bindErr, bindLog, native>>
    /\ UNCHANGED notWait

\* defer aggregateDataLock.RUnlock() / Unlock(): released before the accessor,
\* and so the trampoline, returns to the engine
step_tramp_unlock ==
    /\ pc = "tramp"
    /\ aggregateDataLock' = Release(aggregateDataLock, "waiter")
    /\ pc' = "step"
    /\ UNCHANGED <<fired, mu, res, ret, pending, npc, stepCalls, waitCalls, wokenBy>>
    /\ UNCHANGED <<bindErr, bindLog, native>>
    /\ UNCHANGED notWait

\* the thread of the other connection runs its own statements meanwhile, and
\* the engine calls trampolines on it too
other_tramp_lock ==
    /\ npc = "idle"
    /\ "notifier" \notin Holders(aggregateDataLock)
    /\ \E mode \in LockModes :
        /\ CanAcquire(aggregateDataLock, mode)
        /\ aggregateDataLock' = Acquire(aggregateDataLock, "notifier", mode)
    /\ UNCHANGED <<fired, mu, pc, res, ret, pending, npc, stepCalls, waitCalls, wokenBy>>
    /\ UNCHANGED <<bindErr, bindLog, native>>
    /\ UNCHANGED notWait

other_tramp_unlock ==
    /\ "notifier" \in Holders(aggregateDataLock)
    /\ aggregateDataLock' = Release(aggregateDataLock, "notifier")
    /\ UNCHANGED <<fired, mu, pc, res, ret, pending, npc, stepCalls, waitCalls, wokenBy>>
    /\ UNCHANGED <<bindErr, bindLog, native>>
    /\ UNCHANGED notWait

(***************************************************************************)
(* The engine invokes _unlock_notify_cb on the thread of the connection    *)
(* that ended its transaction; it runs _unlock_note_fire.                  *)
(***************************************************************************)

\* the engine starts the armed callback (and forgets the registration); it
\* does so when that connection ends its transaction, not inside a trampoline
unlock_notify_cb ==
    /\ pending
    /\ npc = "idle"
    /\ "notifier" \notin Holders(aggregateDataLock)
    /\ pending' = FALSE
    /\ npc' = "lock"
    /\ UNCHANGED <<fired, mu, pc, res, ret, stepCalls, waitCalls, wokenBy>>
    /\ UNCHANGED <<bindErr, bindLog, native>>
    /\ UNCHANGED aggregateDataLock
    /\ UNCHANGED notWait

\* pthread_mutex_lock(&un->mu);
fire_lock ==
    /\ npc = "lock"
    /\ mu = "free"
    /\ mu' = "notifier"
    /\ npc' = "set"
    /\ UNCHANGED <<fired, pc, res, ret, pending, stepCalls, waitCalls, wokenBy>>
    /\ UNCHANGED <<bindErr, bindLog, native>>
    /\ UNCHANGED aggregateDataLock
    /\ UNCHANGED notWait

\* un->fired = 1;
fire_set ==
    /\ npc = "set"
    /\ fired' = 1
    /\ npc' = "signal"
    /\ UNCHANGED <<mu, pc, res, ret, pending, stepCalls, waitCalls, wokenBy>>
    /\ UNCHANGED <<bindErr, bindLog, native>>
    /\ UNCHANGED aggregateDataLock
    /\ UNCHANGED notWait

\* a buggy fire that sets the flag without signalling the condition variable
fire_signal_dropped ==
    /\ npc = "signal"
    /\ npc' = "unlock"
    /\ UNCHANGED <<fired, mu, pc, res, ret, pending, stepCalls, waitCalls, wokenBy>>
    /\ UNCHANGED <<bindErr, bindLog, native>>
    /\ UNCHANGED aggregateDataLock
    /\ UNCHANGED notWait

\* pthread_cond_signal(&un->cond): wakes the waiter if it is blocked in the wait
fire_signal ==
    /\ npc = "signal"
    /\ npc' = "unlock"
    /\ IF pc = "w_cond"
         THEN /\ pc' = "w_relock"
              /\ wokenBy' = "signal"
         ELSE UNCHANGED <<pc, wokenBy>>
    /\ UNCHANGED <<fired, mu, res, ret, pending, stepCalls, waitCalls>>
    /\ UNCHANGED <<bindErr, bindLog, native>>
    /\ UNCHANGED aggregateDataLock
    /\ UNCHANGED notWait

\* a buggy fire that returns without unlocking the mutex
fire_unlock_forgotten ==
    /\ npc = "unlock"
    /\ mu' = mu
    /\ npc' = "idle"
    /\ UNCHANGED <<fired, pc, res, ret, pending, stepCalls, waitCalls, wokenBy>>
    /\ UNCHANGED <<bindErr, bindLog, native>>
    /\ UNCHANGED aggregateDataLock
    /\ UNCHANGED notWait

\* pthread_mutex_unlock(&un->mu);
fire_unlock ==
    /\ npc = "unlock"
    /\ mu' = "free"
    /\ npc' = "idle"
    /\ UNCHANGED <<fired, pc, res, ret, pending, stepCalls, waitCalls, wokenBy>>
    /\ UNCHANGED <<bindErr, bindLog, native>>
    /\ UNCHANGED aggregateDataLock
    /\ UNCHANGED notWait

WaiterStep ==
    \/ wait_clear
    \/ wait_arm
    \/ wait_lock
    \/ wait_check
    \/ wait_relock
    \/ wait_unlock

NotifierStep ==
    \/ fire_lock
    \/ fire_set
    \/ fire_signal
    \/ fire_unlock

NextWait ==
    \/ Stmt_Bind
    \/ Stmt_Set
    \/ Stmt_Step_enter
    \/ Stmt_Reset_call
    \/ Stmt_Reset_after_wait
    \/ Stmt_step_call
    \/ step_tramp_lock
    \/ step_tramp_unlock
    \/ other_tramp_lock
    \/ other_tramp_unlock
    \/ Stmt_step_switch
    \/ Stmt_step_after_wait
    \/ Stmt_Step_return
    \/ WaiterStep
    \/ cond_wait_spurious
    \/ unlock_notify_cb
    \/ NotifierStep


(***************************************************************************)
(* Stmt.Step under fair scheduling, for its termination: the engine's      *)
(* last answer to sqlite3_step that the model follows is not               *)
(* SQLITE_LOCKED_SHAREDCACHE (the blocking connection finishes at some     *)
(* point).                                                                 *)
(***************************************************************************)

\* res := C._sqlite3_step(stmt.stmt), the engine answering as assumed
sqlite3_step_answers ==
    /\ Stmt_step_call
    /\ stepCalls = MaxStepCalls - 1 => res' # SQLITE_LOCKED_SHAREDCACHE

\* the statements of Stmt.Step, Stmt.step and Stmt.Reset that need nothing
\* from another thread or from the engine
StmtStep ==
    \/ Stmt_Reset_call
    \/ Stmt_Reset_after_wait
    \/ Stmt_step_switch
    \/ Stmt_step_after_wait
    \/ Stmt_Step_return

\* the trampolines the engine calls inside sqlite3_step are part of its answer
NextStep ==
    \/ Stmt_Bind
    \/ Stmt_Set
    \/ Stmt_Step_enter
    \/ sqlite3_step_answers
    \/ StmtStep
    \/ WaiterStep
    \/ cond_wait_spurious
    \/ unlock_notify_cb
    \/ NotifierStep

(***************************************************************************)
(* The handle registry (package go-pointer, used as pointer.Save,          *)
(* pointer.Restore, pointer.Unref) and the native objects holding handles. *)
(***************************************************************************)

\* bound: the addresses the allocator hands out (a freed address is reused)
MaxAddr == 3
\* bound: the number of handles minted in one run
MaxObjs == 3

Addr == 1 .. MaxAddr
Nil == 0
\* the managed value saved by the n-th Save of a run: every save has its own
NewValue == Len(objs) + 1

\* save(value) -> handle: binds a fresh address to the value
Save(s, a, v) == [s EXCEPT ![a] = v]
\* restore(handle) -> value: a lookup, the registry keeps the binding
Restore(s, a) == s[a]
\* unref(handle): releases the binding and the address
Unref(s, a) == [s EXCEPT ![a] = Nil]
\* the addresses malloc may return: any address freed before, or the first
\* address never handed out (the untouched addresses are interchangeable)
UsedAddrs == {objs[o].h : o \in 1 .. Len(objs)}
FreeAddrs(s) ==
    {a \in Addr : /\ s[a] = Nil
                  /\ \/ a \in UsedAddrs
                     \/ \A b \in Addr \ UsedAddrs : a <= b}

NoLast == [obj |-> 0, got |-> Nil]

\* the record of a freshly minted handle
Minted(kind, a, v, parent) ==
    [kind |-> kind, h |-> a, val |-> v, st |-> "live", parent |-> parent,
     unrefs |-> 0, frees |-> 0, rc |-> SQLITE_OK]

Ids == 1 .. Len(objs)
Live(kind) == {o \in Ids : objs[o].kind = kind /\ objs[o].st = "live"}
Children(o) == {c \in Ids : objs[c].parent = o /\ objs[c].st = "live"}
CanMint == Len(objs) < MaxObjs /\ FreeAddrs(store) # {}

\* a trampoline restores the handle its native object holds
Restored(o) == [obj |-> o, got |-> Restore(store, objs[o].h)]
StaleAfter(o) == stale \/ objs[o].unrefs > 0

\* a buggy CreateFunction that also releases the handle itself when registration fails
CreateFunction_double_release ==
    /\ CanMint
    /\ \E a \in FreeAddrs(store), v \in {NewValue},
          type \in {"scalar", "aggregate", "window", "unknown"},
          r \in {SQLITE_OK, SQLITE_ERROR} :
        LET saved == Save(store, a, v)
            o == Minted("function", a, v, 0) IN
        IF type = "unknown"
          THEN /\ store' = Unref(saved, a)
               /\ objs' = Append(objs, [o EXCEPT !.st = "rejected", !.unrefs = 1])
          ELSE IF r = SQLITE_OK
            THEN /\ store' = saved
                 /\ objs' = Append(objs, o)
            ELSE /\ store' = Unref(Unref(saved, a), a)
                 /\ objs' = Append(objs, [o EXCEPT !.st = "failed", !.unrefs = 2, !.rc = r])
    /\ UNCHANGED <<last, stale>>
    /\ UNCHANGED notReg

\* ExtensionApi.CreateFunction: pApp = pointer.Save(fn); an unknown function
\* type is released by the bridge; otherwise the engine owns the handle and
\* invokes function_destroy when registration fails or the function is retired.
CreateFunction ==
    /\ CanMint
    /\ \E a \in FreeAddrs(store), v \in {NewValue},
          type \in {"scalar", "aggregate", "window", "unknown"},
          r \in {SQLITE_OK, SQLITE_ERROR} :
        LET saved == Save(store, a, v)
            o == Minted("function", a, v, 0) IN
        IF type = "unknown"
          THEN /\ store' = Unref(saved, a)
               /\ objs' = Append(objs, [o EXCEPT !.st = "rejected", !.unrefs = 1])
          ELSE IF r = SQLITE_OK
            THEN /\ store' = saved
                 /\ objs' = Append(objs, o)
            ELSE \* the engine calls the destructor: function_destroy(pApp)
                 /\ store' = Unref(saved, a)
                 /\ objs' = Append(objs, [o EXCEPT !.st = "failed", !.unrefs = 1, !.rc = r])
    /\ UNCHANGED <<last, stale>>
    /\ UNCHANGED notReg

\* ExtensionApi.CreateCollation: sqlite3_create_collation_v2 does not call the
\* destructor when it fails, so the bridge releases pApp itself.
CreateCollation ==
    /\ CanMint
    /\ \E a \in FreeAddrs(store), v \in {NewValue}, r \in {SQLITE_OK, SQLITE_ERROR} :
        LET saved == Save(store, a, v)
            o == Minted("collation", a, v, 0) IN
        IF r = SQLITE_OK
          THEN /\ store' = saved
               /\ objs' = Append(objs, o)
          ELSE /\ store' = Unref(saved, a)
               /\ objs' = Append(objs, [o EXCEPT !.st = "failed", !.unrefs = 1, !.rc = r])
    /\ UNCHANGED <<last, stale>>
    /\ UNCHANGED notReg

\* function_destroy(ptr): the engine retires a function or collation
function_destroy ==
    /\ \E o \in Live("function") \cup Live("collation") :
        /\ store' = Unref(store, objs[o].h)
        /\ objs' = [objs EXCEPT ![o].st = "retired", ![o].unrefs = @ + 1]
    /\ UNCHANGED <<last, stale>>
    /\ UNCHANGED notReg

\* scalar_function_apply_tramp, through getFunction: pointer.Restore(user_data)
scalar_function_apply_tramp ==
    /\ \E o \in Live("function") :
        /\ last' = Restored(o)
        /\ stale' = StaleAfter(o)
    /\ UNCHANGED <<store, objs>>
    /\ UNCHANGED notReg

\* collation_function_compare_tramp: pointer.Restore(pApp)
collation_function_compare_tramp ==
    /\ \E o \in Live("collation") :
        /\ last' = Restored(o)
        /\ stale' = StaleAfter(o)
    /\ UNCHANGED <<store, objs>>
    /\ UNCHANGED notReg

\* ExtensionApi.CreateModule: pointer.Save(module) is handed to the engine with
\* module_destroy as destructor, which the engine also calls when it refuses.
CreateModule ==
    /\ CanMint
    /\ \E a \in FreeAddrs(store), v \in {NewValue}, r \in {SQLITE_OK, SQLITE_ERROR} :
        LET saved == Save(store, a, v)
            o == Minted("module", a, v, 0) IN
        IF r = SQLITE_OK
          THEN /\ store' = saved
               /\ objs' = Append(objs, o)
          ELSE /\ store' = Unref(saved, a)
               /\ objs' = Append(objs, [o EXCEPT !.st = "failed", !.unrefs = 1, !.rc = r])
    /\ UNCHANGED <<last, stale>>
    /\ UNCHANGED notReg

\* module_destroy(pAux): the engine retires a module no table is connected to
module_destroy ==
    /\ \E m \in Live("module") :
        /\ Children(m) = {}
        /\ store' = Unref(store, objs[m].h)
        /\ objs' = [objs EXCEPT ![m].st = "retired", ![m].unrefs = @ + 1]
    /\ UNCHANGED <<last, stale>>
    /\ UNCHANGED notReg

\* create_connect_shared, entered from x_create_tramp / x_connect_tramp after
\* pointer.Restore(pAux): the handler fails, or its table is saved and handed to
\* _allocate_virtual_table, which answers SQLITE_NOMEM without a native struct.
create_connect_shared(m) ==
    /\ last' = Restored(m)
    /\ stale' = StaleAfter(m)
    /\ \/ UNCHANGED <<store, objs>>                    \* Create/Connect returned an error
       \/ /\ CanMint
          /\ \E a \in FreeAddrs(store), v \in {NewValue}, allocated \in BOOLEAN :
               /\ store' = Save(store, a, v)
               /\ objs' = Append(objs,
                     IF allocated THEN Minted("table", a, v, m)
                     ELSE [Minted("table", a, v, m) EXCEPT !.st = "orphan", !.rc = SQLITE_NOMEM])

\* x_connect_tramp
x_connect_tramp ==
    /\ \E m \in Live("module") : create_connect_shared(m)
    /\ UNCHANGED notReg

\* x_best_index_tramp: pointer.Restore(table.impl), then BestIndex
x_best_index_tramp ==
    /\ \E t \in Live("table") :
        /\ last' = Restored(t)
        /\ stale' = StaleAfter(t)
    /\ UNCHANGED <<store, objs>>
    /\ UNCHANGED notReg

\* a buggy x_open_tramp that releases the table's handle once it has read it
x_open_tramp_consumes ==
    /\ \E t \in Live("table") :
        /\ last' = Restored(t)
        /\ stale' = StaleAfter(t)
        /\ store' = Unref(store, objs[t].h)
        /\ objs' = [objs EXCEPT ![t].unrefs = @ + 1]
    /\ UNCHANGED notReg

\* x_open_tramp: pointer.Restore(table.impl); Open fails, or the cursor is saved
\* and handed to _allocate_virtual_cursor (SQLITE_NOMEM: no native struct)
x_open_tramp ==
    /\ \E t \in Live("table") :
        /\ last' = Restored(t)
        /\ stale' = StaleAfter(t)
        /\ \/ UNCHANGED <<store, objs>>                \* Open returned an error
           \/ /\ CanMint
              /\ \E a \in FreeAddrs(store), v \in {NewValue}, allocated \in BOOLEAN :
                   /\ store' = Save(store, a, v)
                   /\ objs' = Append(objs,
                         IF allocated THEN Minted("cursor", a, v, t)
                         ELSE [Minted("cursor", a, v, t) EXCEPT !.st = "orphan", !.rc = SQLITE_NOMEM])
    /\ UNCHANGED notReg

\* x_eof_tramp: pointer.Restore(cursor.impl), then Eof
x_eof_tramp ==
    /\ \E c \in Live("cursor") :
        /\ last' = Restored(c)
        /\ stale' = StaleAfter(c)
    /\ UNCHANGED <<store, objs>>
    /\ UNCHANGED notReg

\* the handler results a teardown trampoline turns into its return code
HandlerResults == {SQLITE_OK, SQLITE_ERROR}

\* the body shared by the teardown trampolines: restore the handle, call the
\* handler (result r), and in the deferred function unref the handle and free
\* the native struct
Teardown(o, r, how) ==
    /\ last' = Restored(o)
    /\ stale' = StaleAfter(o)
    /\ store' = Unref(store, objs[o].h)
    /\ objs' = [objs EXCEPT ![o].st = how, ![o].unrefs = @ + 1,
                            ![o].frees = @ + 1, ![o].rc = r]

\* a buggy teardown that returns the handler's error before releasing anything
TeardownKeepsOnError(o, r, how) ==
    /\ last' = Restored(o)
    /\ stale' = StaleAfter(o)
    /\ IF r = SQLITE_OK
         THEN /\ store' = Unref(store, objs[o].h)
              /\ objs' = [objs EXCEPT ![o].st = how, ![o].unrefs = @ + 1,
                                      ![o].frees = @ + 1, ![o].rc = r]
         ELSE /\ store' = store
              /\ objs' = [objs EXCEPT ![o].st = how, ![o].rc = r]

\* x_disconnect_tramp: the engine disconnects a table that has no open cursor
x_disconnect_tramp ==
    /\ \E t \in Live("table"), r \in HandlerResults :
        /\ Children(t) = {}
        /\ Teardown(t, r, "disconnected")
    /\ UNCHANGED notReg

\* a buggy x_destroy_tramp without the deferred release on the error path
x_destroy_tramp_keeps_on_error ==
    /\ \E t \in Live("table"), r \in HandlerResults :
        /\ Children(t) = {}
        /\ TeardownKeepsOnError(t, r, "destroyed")
    /\ UNCHANGED notReg

\* x_destroy_tramp: the engine destroys a table that has no open cursor
x_destroy_tramp ==
    /\ \E t \in Live("table"), r \in HandlerResults :
        /\ Children(t) = {}
        /\ Teardown(t, r, "destroyed")
    /\ UNCHANGED notReg

\* x_close_tramp: the engine closes a cursor
x_close_tramp ==
    /\ \E c \in Live("cursor"), r \in HandlerResults :
        Teardown(c, r, "closed")
    /\ UNCHANGED notReg

NextReg ==
    \/ CreateFunction
    \/ CreateCollation
    \/ function_destroy
    \/ scalar_function_apply_tramp
    \/ collation_function_compare_tramp
    \/ CreateModule
    \/ module_destroy
    \/ x_connect_tramp
    \/ x_best_index_tramp
    \/ x_open_tramp
    \/ x_eof_tramp
    \/ x_disconnect_tramp
    \/ x_destroy_tramp
    \/ x_close_tramp

(***************************************************************************)
(* The aggregate context store (aggregateDataStore, behind                 *)
(* AggregateContext.Data / SetData), the aggregate and window trampolines, *)
(* and the Sum window aggregate they dispatch to.                          *)
(***************************************************************************)

\* bound: step and inverse calls followed on one group evaluation
MaxAggOps == 2
\* bound: rows a window frame holds at once
MaxFrame == 2

\* the groups the engine evaluates; the aggregate context of group g, once
\* allocated, lives at address g, and NULL is address Nil
Groups == {1, 2}
CtxPtrs == Groups \cup {Nil}

\* Numbers. A number is hi * 2^63 + lo with lo small (well below 2^9 in size),
\* which is exact for the 64-bit integers and the float64 values near a
\* multiple of 2^63. An int64 has hi = 0, or hi = 1 and lo < 0, or hi = -1
\* and lo >= 0. A float64 counts lo in halves, and has lo = 0 unless hi = 0:
\* next to 2^63 a float64 cannot hold a small part.
I64(hi, lo) == [hi |-> hi, lo |-> lo]
Small(n) == I64(0, n)
MaxInt64 == I64(1, -1)
MinInt64 == I64(-1, 0)

\* two's-complement wrap-around of Go's int64 arithmetic
Wrap64(x) ==
    IF x.hi % 2 = 0 THEN I64(0, x.lo)
    ELSE IF x.lo < 0 THEN I64(1, x.lo) ELSE I64(-1, x.lo)
\* int64 += and -=
Add64(x, y) == Wrap64(I64(x.hi + y.hi, x.lo + y.lo))
Sub64(x, y) == Wrap64(I64(x.hi - y.hi, x.lo - y.lo))
\* float64(v) of an int64
ToFloat(x) == IF x.hi = 0 THEN I64(0, 2 * x.lo) ELSE I64(x.hi, 0)
\* float64 += and -=
FAdd(x, y) == IF x.hi + y.hi # 0 THEN I64(x.hi + y.hi, 0) ELSE I64(0, x.lo + y.lo)
FSub(x, y) == IF x.hi - y.hi # 0 THEN I64(x.hi - y.hi, 0) ELSE I64(0, x.lo - y.lo)
\* the integer part of a float64 of halves, towards zero
Trunc(h) == IF h >= 0 THEN h \div 2 ELSE -((-h) \div 2)

\* sqlite3_value cells: an INTEGER, a FLOAT, or SQL NULL
IntV(x) == [type |-> "INTEGER", n |-> x]
FloatV(x) == [type |-> "FLOAT", n |-> x]
NullV == [type |-> "NULL", n |-> Small(0)]
TextV(t) == [type |-> "TEXT", n |-> Small(0), text |-> t]
\* the integer a text converts to (its numeric prefix), for the texts in use
Atoi(t) == IF t = "1" THEN Small(1) ELSE Small(0)
\* the text an integer converts to, for the integers in use
Itoa(x) ==
    IF x = Small(1) THEN "1" ELSE IF x = Small(-1) THEN "-1"
    ELSE IF x = MaxInt64 THEN "9223372036854775807" ELSE "other"
InputValues == {IntV(Small(1)), IntV(Small(2)), FloatV(Small(1)), NullV}

\* Value.IsNil: v.ptr == nil, which no cell handed over by the engine satisfies
IsNil(v) == FALSE
\* Value.Type
Type(v) == v.type
\* Value.Int64 (sqlite3_value_int64: a FLOAT is truncated and saturates, NULL is 0)
Int64(v) ==
    IF v.type = "INTEGER" THEN v.n
    ELSE IF v.type = "FLOAT"
      THEN IF v.n.hi = 0 THEN Small(Trunc(v.n.lo))
           ELSE IF v.n.hi > 0 THEN MaxInt64 ELSE MinInt64
      ELSE IF v.type = "TEXT" THEN Atoi(v.text) ELSE Small(0)
\* Value.Int (sqlite3_value_int: the low 32 bits of the 64-bit integer; 2^63
\* is a multiple of 2^32, so they are the small part)
ValueInt(v) == Int64(v).lo
\* Value.Text (sqlite3_value_text: NULL is the empty string)
Text(v) ==
    IF v.type = "TEXT" THEN v.text
    ELSE IF v.type = "INTEGER" THEN Itoa(v.n) ELSE ""
\* Value.Blob (sqlite3_value_blob: the bytes of the text)
Blob(v) == Text(v)
\* Value.Float (sqlite3_value_double: NULL is 0.0)
Float(v) ==
    IF v.type = "INTEGER" THEN ToFloat(v.n)
    ELSE IF v.type = "FLOAT" THEN v.n
    ELSE IF v.type = "TEXT" THEN ToFloat(Atoi(v.text)) ELSE Small(0)

\* the nil interface{} that Data returns for a key the map does not hold
NilData == [nil |-> TRUE]

\* &SumContext{}
ZeroSumContext == [rSum |-> Small(0), iSum |-> Small(0), count |-> 0, approx |-> FALSE]

\* Sum.Step: installs a zero SumContext when the group has none, then adds
SumStep(acc, v) ==
    LET c == IF acc = NilData THEN ZeroSumContext ELSE acc IN
    IF IsNil(v) THEN c
    ELSE IF Type(v) = "INTEGER"
      THEN [c EXCEPT !.count = @ + 1, !.iSum = Add64(@, Int64(v))]
      ELSE [c EXCEPT !.count = @ + 1, !.approx = TRUE, !.rSum = FAdd(@, Float(v))]

\* Sum.Inverse
SumInverse(acc, v) ==
    IF Type(v) = "INTEGER" /\ ~acc.approx
      THEN [acc EXCEPT !.rSum = FSub(@, ToFloat(Int64(v))), !.iSum = Sub64(@, Int64(v))]
      ELSE [acc EXCEPT !.rSum = FSub(@, Float(v))]

\* the result sink of one callback: NULL unless the handler writes
NullResult == [kind |-> "null", n |-> Small(0)]

\* Sum.Final (and Sum.Value, which calls it)
SumFinal(acc) ==
    IF acc # NilData /\ acc.count > 0
      THEN IF acc.approx THEN [kind |-> "float", n |-> acc.rSum]
           ELSE [kind |-> "int64", n |-> acc.iSum]
      ELSE NullResult

\* sqlite3_aggregate_context(ctx, nBytes): the context of the group, allocated
\* on demand when nBytes > 0, NULL when nBytes = 0 and none was allocated
AggregateContextPtr(g, nBytes) == IF nBytes > 0 \/ aggCtx[g] THEN g ELSE Nil

\* AggregateContext.Data
Data(id) == aggregateDataStore[id]

\* one trampoline call: what it was given, what it reported (out), what the
\* steps alone give (want), and how many rows had been stepped or inverted
Call(tramp, g, v, id, out, want, outcome) ==
    [tramp |-> tramp, g |-> g, v |-> v, id |-> id, out |-> out, want |-> want,
     outcome |-> outcome, rows |-> IF g \in Groups THEN ops[g] ELSE 0]
NoCall == Call("none", 0, NullV, Nil, NullResult, NullResult, "ok")

\* aggregate_function_step_tramp on the context of group g with the row v:
\* id = sqlite3_aggregate_context(ctx, 1); Step
StepTramp(g, v) ==
    LET id == AggregateContextPtr(g, 1) IN
    /\ aggCtx' = [aggCtx EXCEPT ![g] = TRUE]
    /\ aggregateDataStore' = [aggregateDataStore EXCEPT ![id] = SumStep(Data(id), v)]
    /\ ref' = [ref EXCEPT ![g] = SumStep(@, v)]
    /\ frame' = [frame EXCEPT ![g] = Append(@, v)]
    /\ ops' = [ops EXCEPT ![g] = @ + 1]
    /\ peeked' = [peeked EXCEPT ![g] = IF @ = "value" THEN "between" ELSE @]
    /\ pre' = Data(id)
    /\ lastCall' = [Call("step", g, v, id, NullResult, NullResult, "ok")
                      EXCEPT !.rows = @ + 1]
    /\ UNCHANGED crashed

\* the engine steps any row into any group
aggregate_function_step_tramp ==
    /\ ~crashed
    /\ \E g \in Groups, v \in InputValues :
        /\ ops[g] < MaxAggOps
        /\ Len(frame[g]) < MaxFrame
        /\ StepTramp(g, v)
    /\ UNCHANGED series
    /\ UNCHANGED notAgg

\* window_function_inverse_tramp: the engine takes the oldest row out of the frame
window_function_inverse_tramp ==
    /\ ~crashed
    /\ \E g \in Groups :
        LET id == AggregateContextPtr(g, 1)
            v == Head(frame[g]) IN
        /\ frame[g] # <<>>
        /\ ops[g] < MaxAggOps
        /\ frame' = [frame EXCEPT ![g] = Tail(@)]
        /\ ops' = [ops EXCEPT ![g] = @ + 1]
        /\ pre' = Data(id)
        /\ IF Data(id) = NilData
             THEN \* ctx.Data().(*SumContext) panics on a nil interface
                  /\ crashed' = TRUE
                  /\ lastCall' = Call("inverse", g, v, id, NullResult, NullResult, "panic")
                  /\ UNCHANGED <<aggregateDataStore, ref>>
             ELSE /\ aggregateDataStore' =
                       [aggregateDataStore EXCEPT ![id] = SumInverse(Data(id), v)]
                  /\ ref' = [ref EXCEPT ![g] = SumInverse(@, v)]
                  /\ lastCall' = Call("inverse", g, v, id, NullResult, NullResult, "ok")
                  /\ UNCHANGED crashed
    /\ UNCHANGED <<aggCtx, peeked>>
    /\ UNCHANGED series
    /\ UNCHANGED notAgg

\* a buggy value trampoline that installs an accumulator when the group has none
window_function_value_tramp_installs ==
    /\ ~crashed
    /\ \E g \in Groups :
        LET id == AggregateContextPtr(g, 1) IN
        /\ aggCtx' = [aggCtx EXCEPT ![g] = TRUE]
        /\ peeked' = [peeked EXCEPT ![g] = IF @ = "no" /\ ops[g] > 0 THEN "value" ELSE @]
        /\ pre' = Data(id)
        /\ lastCall' = Call("value", g, NullV, id, SumFinal(Data(id)), SumFinal(ref[g]), "ok")
        /\ aggregateDataStore' =
             [aggregateDataStore EXCEPT ![id] = IF @ = NilData THEN ZeroSumContext ELSE @]
    /\ UNCHANGED <<frame, ops, ref, crashed>>
    /\ UNCHANGED series
    /\ UNCHANGED notAgg

\* a buggy value trampoline that evicts the entry the way the final one does
window_function_value_tramp_evicts ==
    /\ ~crashed
    /\ \E g \in Groups :
        LET id == AggregateContextPtr(g, 1) IN
        /\ aggCtx' = [aggCtx EXCEPT ![g] = TRUE]
        /\ peeked' = [peeked EXCEPT ![g] = IF @ = "no" /\ ops[g] > 0 THEN "value" ELSE @]
        /\ pre' = Data(id)
        /\ lastCall' = Call("value", g, NullV, id, SumFinal(Data(id)), SumFinal(ref[g]), "ok")
        /\ aggregateDataStore' = [aggregateDataStore EXCEPT ![id] = NilData]
    /\ UNCHANGED <<frame, ops, ref, crashed>>
    /\ UNCHANGED series
    /\ UNCHANGED notAgg

\* window_function_value_tramp on the context of group g:
\* id = sqlite3_aggregate_context(ctx, 1); Value
ValueTramp(g) ==
    LET id == AggregateContextPtr(g, 1) IN
    /\ aggCtx' = [aggCtx EXCEPT ![g] = TRUE]
    /\ peeked' = [peeked EXCEPT ![g] = IF @ = "no" /\ ops[g] > 0 THEN "value" ELSE @]
    /\ pre' = Data(id)
    /\ lastCall' = Call("value", g, NullV, id, SumFinal(Data(id)), SumFinal(ref[g]), "ok")
    /\ UNCHANGED <<aggregateDataStore, frame, ops, ref, crashed>>

window_function_value_tramp ==
    /\ ~crashed
    /\ \E g \in Groups : ValueTramp(g)
    /\ UNCHANGED series
    /\ UNCHANGED notAgg

\* a buggy final trampoline whose eviction is not deferred: a panic skips it
aggregate_function_final_tramp_no_defer ==
    /\ ~crashed
    /\ \E g \in Groups, panics \in BOOLEAN :
        LET id == AggregateContextPtr(g, 0) IN
        /\ pre' = Data(id)
        /\ lastCall' = Call("final", g, NullV, id,
                            IF panics THEN NullResult ELSE SumFinal(Data(id)),
                            SumFinal(ref[g]),
                            IF panics THEN "panic" ELSE IF peeked[g] = "between" THEN "between" ELSE "ok")
        /\ aggregateDataStore' =
             IF panics THEN aggregateDataStore
             ELSE [aggregateDataStore EXCEPT ![id] = NilData]
        /\ crashed' = panics
        /\ aggCtx' = [aggCtx EXCEPT ![g] = FALSE]
        /\ frame' = [frame EXCEPT ![g] = <<>>]
        /\ ops' = [ops EXCEPT ![g] = 0]
        /\ ref' = [ref EXCEPT ![g] = NilData]
        /\ peeked' = [peeked EXCEPT ![g] = "no"]
    /\ UNCHANGED series
    /\ UNCHANGED notAgg

\* a buggy final trampoline that never deletes the entry
FinalTramp_keeps_entry(g, panics) ==
    LET id == AggregateContextPtr(g, 0) IN
    /\ pre' = Data(id)
    /\ lastCall' = Call("final", g, NullV, id,
                        IF panics THEN NullResult ELSE SumFinal(Data(id)),
                        SumFinal(ref[g]),
                        IF panics THEN "panic" ELSE IF peeked[g] = "between" THEN "between" ELSE "ok")
    /\ aggregateDataStore' = aggregateDataStore
    /\ crashed' = panics
    /\ aggCtx' = [aggCtx EXCEPT ![g] = FALSE]
    /\ frame' = [frame EXCEPT ![g] = <<>>]
    /\ ops' = [ops EXCEPT ![g] = 0]
    /\ ref' = [ref EXCEPT ![g] = NilData]
    /\ peeked' = [peeked EXCEPT ![g] = "no"]

\* aggregate_function_final_tramp: id = sqlite3_aggregate_context(ctx, 0); the
\* deferred function deletes the entry of id, also when Final panics (a
\* Function whose Final fails; Sum's writes its result). The engine then frees
\* the aggregate context of the group.
FinalTramp(g, panics) ==
    LET id == AggregateContextPtr(g, 0) IN
    /\ pre' = Data(id)
    /\ lastCall' = Call("final", g, NullV, id,
                        IF panics THEN NullResult ELSE SumFinal(Data(id)),
                        SumFinal(ref[g]),
                        IF panics THEN "panic" ELSE IF peeked[g] = "between" THEN "between" ELSE "ok")
    /\ aggregateDataStore' = [aggregateDataStore EXCEPT ![id] = NilData]
    /\ crashed' = panics
    /\ aggCtx' = [aggCtx EXCEPT ![g] = FALSE]
    /\ frame' = [frame EXCEPT ![g] = <<>>]
    /\ ops' = [ops EXCEPT ![g] = 0]
    /\ ref' = [ref EXCEPT ![g] = NilData]
    /\ peeked' = [peeked EXCEPT ![g] = "no"]

aggregate_function_final_tramp ==
    /\ ~crashed
    /\ \E g \in Groups, panics \in BOOLEAN : FinalTramp(g, panics)
    /\ UNCHANGED series
    /\ UNCHANGED notAgg

NextAgg ==
    \/ aggregate_function_step_tramp
    \/ window_function_inverse_tramp
    \/ window_function_value_tramp
    \/ aggregate_function_final_tramp

(***************************************************************************)
(* TestWindowFunction: one query feeds the rows of a series of integers to *)
(* the Sum function, group by group in order, as a plain aggregate (steps, *)
(* then Final) or as a running total over an unbounded-preceding frame     *)
(* (Value after each step).                                                *)
(***************************************************************************)

\* bound: the longest series of arbitrary integers a query feeds
MaxSeriesLen == 2

\* generate_series: 1, 2, ..., 10
generate_series == [i \in 1..10 |-> Small(i)]

IntInputs == {Small(1), Small(2), MaxInt64, MinInt64}
RECURSIVE SeqsUpTo(_, _)
SeqsUpTo(S, n) ==
    IF n = 0 THEN {<<>>}
    ELSE LET shorter == SeqsUpTo(S, n - 1) IN
         shorter \cup {Append(q, x) : q \in shorter, x \in S}
TestSeries == {generate_series} \cup (SeqsUpTo(IntInputs, MaxSeriesLen) \ {<<>>})

\* v1 + ... + vk as the integer it is, without any width
RECURSIVE ExactSum(_, _)
ExactSum(q, k) ==
    IF k = 0 THEN Small(0)
    ELSE LET r == ExactSum(q, k - 1) IN I64(r.hi + q[k].hi, r.lo + q[k].lo)

TestWindowFunction_step ==
    /\ ~crashed
    /\ \E g \in Groups :
        /\ ops[g] < Len(series[g])
        /\ StepTramp(g, IntV(series[g][ops[g] + 1]))
    /\ UNCHANGED series
    /\ UNCHANGED notAgg

TestWindowFunction_value ==
    /\ ~crashed
    /\ \E g \in Groups :
        /\ series[g] # <<>>
        /\ ValueTramp(g)
    /\ UNCHANGED series
    /\ UNCHANGED notAgg

TestWindowFunction_final ==
    /\ ~crashed
    /\ \E g \in Groups :
        /\ series[g] # <<>>
        /\ FinalTramp(g, FALSE)
    /\ UNCHANGED series
    /\ UNCHANGED notAgg

NextSum ==
    \/ TestWindowFunction_step
    \/ TestWindowFunction_value
    \/ TestWindowFunction_final

(***************************************************************************)
(* The lock discipline of the aggregate context store: each thread runs    *)
(* the trampolines of its own group; the callback of a trampoline calls    *)
(* AggregateContext.Data and SetData, and the final trampoline evicts the  *)
(* entry in a deferred function. An accessor is three steps: take the      *)
(* lock, touch the map, release the lock.                                  *)
(***************************************************************************)

\* bound: the accessor calls the callback of one trampoline makes
MaxAccess == 2

Threads == {"t1", "t2"}
GroupOf(t) == IF t = "t1" THEN 1 ELSE 2
TrampNames == {"step", "value", "inverse", "final"}

\* a thread that is in no trampoline
Outside == [tramp |-> "none", at |-> "out", op |-> "none", left |-> 0, id |-> Nil]

\* a buggy discipline that takes the read lock everywhere
LockMode_always_read(op) == "r"

\* Data: RLock; SetData and the eviction: Lock
LockMode(op) == IF op = "Data" THEN "r" ELSE "w"

Mutates(op) == op \in {"SetData", "delete"}

\* the thread is between taking and releasing the lock of an accessor
Accessing(t) == th[t].at \in {"held", "done"}

\* the engine calls a trampoline on thread t:
\* id = sqlite3_aggregate_context(ctx, 1), or (ctx, 0) in the final trampoline
tramp_enter(t) ==
    /\ th[t].at = "out"
    /\ \E name \in TrampNames :
        LET n == IF name = "final" THEN 0 ELSE 1 IN
        /\ th' = [th EXCEPT ![t] = [tramp |-> name, at |-> "user", op |-> "none",
                                    left |-> MaxAccess,
                                    id |-> AggregateContextPtr(GroupOf(t), n)]]
        /\ aggCtx' = [aggCtx EXCEPT ![GroupOf(t)] = @ \/ n > 0]
    /\ UNCHANGED <<aggregateDataLock, aggregateDataStore>>
    /\ UNCHANGED notLock

\* the callback calls agg.Data() or agg.SetData(val)
accessor_call(t) ==
    /\ th[t].at = "user"
    /\ th[t].left > 0
    /\ \E op \in {"Data", "SetData"} :
        th' = [th EXCEPT ![t].at = "lock", ![t].op = op, ![t].left = @ - 1]
    /\ UNCHANGED <<aggregateDataLock, aggregateDataStore, aggCtx>>
    /\ UNCHANGED notLock

\* the callback returns; in the final trampoline the deferred eviction starts
callback_return(t) ==
    /\ th[t].at = "user"
    /\ th' = IF th[t].tramp = "final"
               THEN [th EXCEPT ![t].at = "lock", ![t].op = "delete"]
               ELSE [th EXCEPT ![t] = Outside]
    /\ UNCHANGED <<aggregateDataLock, aggregateDataStore, aggCtx>>
    /\ UNCHANGED notLock

\* aggregateDataLock.RLock() / aggregateDataLock.Lock()
lock_acquire(t) ==
    /\ th[t].at = "lock"
    /\ CanAcquire(aggregateDataLock, LockMode(th[t].op))
    /\ aggregateDataLock' = Acquire(aggregateDataLock, t, LockMode(th[t].op))
    /\ th' = [th EXCEPT ![t].at = "held"]
    /\ UNCHANGED <<aggregateDataStore, aggCtx>>
    /\ UNCHANGED notLock

\* aggregateDataStore[agg.id] / aggregateDataStore[agg.id] = val /
\* delete(aggregateDataStore, id)
map_access(t) ==
    /\ th[t].at = "held"
    /\ aggregateDataStore' =
         CASE th[t].op = "SetData" -> [aggregateDataStore EXCEPT ![th[t].id] = ZeroSumContext]
           [] th[t].op = "delete" -> [aggregateDataStore EXCEPT ![th[t].id] = NilData]
           [] OTHER -> aggregateDataStore
    /\ th' = [th EXCEPT ![t].at = "done"]
    /\ UNCHANGED <<aggregateDataLock, aggCtx>>
    /\ UNCHANGED notLock

\* the deferred RUnlock() / Unlock(); after the eviction the trampoline is over
\* and the engine frees the aggregate context
lock_release(t) ==
    /\ th[t].at = "done"
    /\ aggregateDataLock' = Release(aggregateDataLock, t)
    /\ IF th[t].op = "delete"
         THEN /\ th' = [th EXCEPT ![t] = Outside]
              /\ aggCtx' = [aggCtx EXCEPT ![GroupOf(t)] = FALSE]
         ELSE /\ th' = [th EXCEPT ![t].at = "user"]
              /\ aggCtx' = aggCtx
    /\ UNCHANGED aggregateDataStore
    /\ UNCHANGED notLock

NextLock ==
    \E t \in Threads :
        \/ tramp_enter(t)
        \/ accessor_call(t)
        \/ callback_return(t)
        \/ lock_acquire(t)
        \/ map_access(t)
        \/ lock_release(t)

(***************************************************************************)
(* The extension entry point (Register, go_sqlite3_extension_init) and the *)
(* commit and rollback hooks of one connection (RegisterCommitHook,        *)
(* RegisterRollbackHook and their trampolines).                            *)
(***************************************************************************)

\* error values: nil, or an error with a text
NoError == "nil"
Errors == {NoError, "boom"}
\* the message out-parameter of the entry point, when nothing was stored in it
NoMsg == "unset"

\* var extension func(*ExtensionApi) (ErrorCode, error): nil until Register;
\* a registered function is described by what it returns
NilExtension == [nil |-> TRUE]
ExtensionFns == [nil : {FALSE}, code : {SQLITE_OK, SQLITE_ERROR}, err : Errors]

\* Go types of the hook callbacks; x.(T) with a concrete T succeeds only when
\* the dynamic type of x is T
FuncInt == "func() int"
FuncVoid == "func()"
TypeAssert(dyn, T) == dyn = T

\* the type of the value a hook registration saves: the parameter fn func() int
SavedType(kind) == FuncInt

ExtCall(op, fn, outcome, invoked, status, msg, err) ==
    [op |-> op, fn |-> fn, outcome |-> outcome, invoked |-> invoked,
     status |-> status, msg |-> msg, err |-> err]
NoExtCall == ExtCall("none", "nil", "ok", 0, SQLITE_OK, NoMsg, NoError)

\* a panic that leaves an exported function ends the process
ExtAlive == extCall.outcome # "panic"

\* the handle record of the hook whose argument the engine holds
HookObj(kind, arg) == {o \in Live(kind) : objs[o].h = arg}

\* pointer.Unref(prev) on the argument of the replaced hook
UnrefPrev(s, prev) == IF prev = Nil THEN s ELSE Unref(s, prev)
ReleasePrev(os, kind, prev) ==
    [o \in DOMAIN os |->
        IF os[o].kind = kind /\ os[o].st = "live" /\ os[o].h = prev
          THEN [os[o] EXCEPT !.st = "replaced", !.unrefs = @ + 1]
          ELSE os[o]]

\* Register(fn): extension = fn
Register ==
    /\ ExtAlive
    /\ \E fn \in ExtensionFns :
        /\ extension' = fn
        /\ extCall' = ExtCall("Register", "fn", "ok", 0, SQLITE_OK, NoMsg, NoError)
    /\ UNCHANGED <<commitArg, rollbackArg, store, objs>>
    /\ UNCHANGED notExt

\* go_sqlite3_extension_init(db, msg), called by sqlite3_extension_init:
\*   if code, err = extension(...); err != nil { *msg = C.CString(err.Error()) }
\*   return
\* calling the nil function value panics
go_sqlite3_extension_init ==
    /\ ExtAlive
    /\ extCall' =
         IF extension = NilExtension
           THEN ExtCall("init", "nil", "panic", 0, SQLITE_OK, NoMsg, NoError)
           ELSE ExtCall("init", "fn", "ok", 1, extension.code,
                        IF extension.err # NoError THEN extension.err ELSE NoMsg,
                        extension.err)
    /\ UNCHANGED <<extension, commitArg, rollbackArg, store, objs>>
    /\ UNCHANGED notExt

\* a buggy RegisterCommitHook that leaves the replaced handle in the registry
RegisterCommitHook_keeps_prev ==
    /\ ExtAlive
    /\ \/ /\ commitArg' = Nil
          /\ extCall' = ExtCall("RegisterCommitHook", "nil", "ok", 0, SQLITE_OK, NoMsg, NoError)
          /\ UNCHANGED <<store, objs>>
       \/ /\ CanMint
          /\ \E a \in FreeAddrs(store), v \in {NewValue} :
              /\ commitArg' = a
              /\ store' = Save(store, a, v)
              /\ objs' = Append(objs, Minted("commit_hook", a, v, 0))
          /\ extCall' = ExtCall("RegisterCommitHook", "fn", "ok", 0, SQLITE_OK, NoMsg, NoError)
    /\ UNCHANGED <<extension, rollbackArg>>
    /\ UNCHANGED notExt

\* ExtensionApi.RegisterCommitHook(fn):
\*   fn == nil: prev = sqlite3_commit_hook(db, nil, nil)
\*   else:      prev = sqlite3_commit_hook(db, commit_hook_tramp, pointer.Save(fn))
\*   pointer.Unref(prev)
RegisterCommitHook ==
    /\ ExtAlive
    /\ \/ /\ commitArg' = Nil
          /\ store' = UnrefPrev(store, commitArg)
          /\ objs' = ReleasePrev(objs, "commit_hook", commitArg)
          /\ extCall' = ExtCall("RegisterCommitHook", "nil", "ok", 0, SQLITE_OK, NoMsg, NoError)
       \/ /\ CanMint
          /\ \E a \in FreeAddrs(store), v \in {NewValue} :
              /\ commitArg' = a
              /\ store' = UnrefPrev(Save(store, a, v), commitArg)
              /\ objs' = Append(ReleasePrev(objs, "commit_hook", commitArg),
                                Minted("commit_hook", a, v, 0))
          /\ extCall' = ExtCall("RegisterCommitHook", "fn", "ok", 0, SQLITE_OK, NoMsg, NoError)
    /\ UNCHANGED <<extension, rollbackArg>>
    /\ UNCHANGED notExt

\* ExtensionApi.RegisterRollbackHook(fn), fn of type func() int: as above with
\* sqlite3_rollback_hook and rollback_hook_tramp
RegisterRollbackHook ==
    /\ ExtAlive
    /\ \/ /\ rollbackArg' = Nil
          /\ store' = UnrefPrev(store, rollbackArg)
          /\ objs' = ReleasePrev(objs, "rollback_hook", rollbackArg)
          /\ extCall' = ExtCall("RegisterRollbackHook", "nil", "ok", 0, SQLITE_OK, NoMsg, NoError)
       \/ /\ CanMint
          /\ \E a \in FreeAddrs(store), v \in {NewValue} :
              /\ rollbackArg' = a
              /\ store' = UnrefPrev(Save(store, a, v), rollbackArg)
              /\ objs' = Append(ReleasePrev(objs, "rollback_hook", rollbackArg),
                                Minted("rollback_hook", a, v, 0))
          /\ extCall' = ExtCall("RegisterRollbackHook", "fn", "ok", 0, SQLITE_OK, NoMsg, NoError)
    /\ UNCHANGED <<extension, commitArg>>
    /\ UNCHANGED notExt

\* commit_hook_tramp(p), called by the engine before a commit with the
\* installed argument: fn = pointer.Restore(p).(func() int); return C.int(fn())
commit_hook_tramp ==
    /\ ExtAlive
    /\ commitArg # Nil
    /\ \E o \in HookObj("commit_hook", commitArg), r \in {0, 1} :
        extCall' =
          IF Restore(store, commitArg) = objs[o].val /\ TypeAssert(SavedType(objs[o].kind), FuncInt)
            THEN ExtCall("commit_hook_tramp", "fn", "ok", 1, r, NoMsg, NoError)
            ELSE ExtCall("commit_hook_tramp", "fn", "panic", 0, SQLITE_OK, NoMsg, NoError)
    /\ UNCHANGED <<extension, commitArg, rollbackArg, store, objs>>
    /\ UNCHANGED notExt

\* rollback_hook_tramp(p), called by the engine on a rollback with the
\* installed argument: pointer.Restore(p).(func())()
rollback_hook_tramp ==
    /\ ExtAlive
    /\ rollbackArg # Nil
    /\ \E o \in HookObj("rollback_hook", rollbackArg) :
        extCall' =
          IF Restore(store, rollbackArg) = objs[o].val /\ TypeAssert(SavedType(objs[o].kind), FuncVoid)
            THEN ExtCall("rollback_hook_tramp", "fn", "ok", 1, SQLITE_OK, NoMsg, NoError)
            ELSE ExtCall("rollback_hook_tramp", "fn", "panic", 0, SQLITE_OK, NoMsg, NoError)
    /\ UNCHANGED <<extension, commitArg, rollbackArg, store, objs>>
    /\ UNCHANGED notExt

NextExt ==
    \/ Register
    \/ go_sqlite3_extension_init
    \/ RegisterCommitHook
    \/ RegisterRollbackHook
    \/ commit_hook_tramp
    \/ rollback_hook_tramp

(***************************************************************************)
(* The virtual-table protocol: CreateModule with its options, the factory  *)
(* trampolines, and the trampolines the engine calls on the table.         *)
(***************************************************************************)

\* what a handler returns as its error: nil, an ErrorCode, or any other error
NilErr == [kind |-> "nil", code |-> SQLITE_OK, text |-> ""]
CodeErr(c) == [kind |-> "code", code |-> c, text |-> ""]
OtherErr(t) == [kind |-> "other", code |-> SQLITE_ERROR, text |-> t]
HandlerErrors == {NilErr, CodeErr(SQLITE_OK), CodeErr(SQLITE_LOCKED), OtherErr("boom")}

\* err != nil && err != SQLITE_OK
IsFailure(err) == err # NilErr /\ err # CodeErr(SQLITE_OK)

\* the struct ModuleOptions after the option functions ran (ReadOnly defaults
\* to true, the others to false)
ModuleOptions ==
    [EponymousOnly : BOOLEAN, ReadOnly : BOOLEAN,
     Transactional : BOOLEAN, TwoPhaseCommit : BOOLEAN, Overloadable : BOOLEAN]

\* &ModuleOptions{ReadOnly: true}
DefaultOptions ==
    [EponymousOnly |-> FALSE, ReadOnly |-> TRUE,
     Transactional |-> FALSE, TwoPhaseCommit |-> FALSE, Overloadable |-> FALSE]

\* a buggy wiring that sets the sync entry for every transactional module
OptionalSlots_sync_with_begin(opt) ==
    [xUpdate |-> IF ~opt.ReadOnly THEN "x_update_tramp" ELSE "nil",
     xBegin |-> IF opt.Transactional THEN "x_begin_tramp" ELSE "nil",
     xCommit |-> IF opt.Transactional THEN "x_commit_tramp" ELSE "nil",
     xRollback |-> IF opt.Transactional THEN "x_rollback_tramp" ELSE "nil",
     xSync |-> IF opt.Transactional THEN "x_sync_tramp" ELSE "nil",
     xFindFunction |-> "nil"]

\* the optional entries of the sqlite3_module CreateModule fills in:
\*   if !opt.ReadOnly { xUpdate = x_update_tramp }
\*   if opt.Transactional { xBegin, xCommit, xRollback = ...
\*       if opt.TwoPhaseCommit { xSync = x_sync_tramp } }
\*   if opt.Overloadable { /* TODO */ }
OptionalSlots(opt) ==
    [xUpdate |-> IF ~opt.ReadOnly THEN "x_update_tramp" ELSE "nil",
     xBegin |-> IF opt.Transactional THEN "x_begin_tramp" ELSE "nil",
     xCommit |-> IF opt.Transactional THEN "x_commit_tramp" ELSE "nil",
     xRollback |-> IF opt.Transactional THEN "x_rollback_tramp" ELSE "nil",
     xSync |-> IF opt.Transactional /\ opt.TwoPhaseCommit THEN "x_sync_tramp" ELSE "nil",
     xFindFunction |-> "nil"]

NoModule ==
    [state |-> "none", eponymousOnly |-> FALSE, stateful |-> FALSE, saved |-> FALSE,
     xCreate |-> "nil", xConnect |-> "nil", xUpdate |-> "nil",
     xBegin |-> "nil", xSync |-> "nil", xCommit |-> "nil", xRollback |-> "nil",
     xFindFunction |-> "nil", opt |-> DefaultOptions]
NoTable ==
    [exists |-> FALSE, zErrMsg |-> "", cursor |-> FALSE]
NoVCall ==
    [tramp |-> "none", op |-> "none", handlers |-> <<>>, status |-> SQLITE_OK,
     err |-> NilErr, detail |-> <<>>]
VCall(tramp, op, handlers, status, err, detail) ==
    [tramp |-> tramp, op |-> op, handlers |-> handlers, status |-> status,
     err |-> err, detail |-> detail]

\* a buggy CreateModule that leaves the create slot of an eponymous-only
\* module pointing at the connect trampoline
CreateModule_options_keeps_create ==
    /\ ~aborted
    /\ sqliteModule.state = "none"
    /\ \E opt \in ModuleOptions, stateful \in BOOLEAN, r \in {SQLITE_OK, SQLITE_ERROR} :
        IF opt.EponymousOnly /\ stateful
          THEN sqliteModule' = [NoModule EXCEPT !.state = "rejected", !.opt = opt,
                                                !.eponymousOnly = TRUE, !.stateful = stateful]
          ELSE sqliteModule' =
                 [state |-> IF r = SQLITE_OK THEN "registered" ELSE "refused",
                  eponymousOnly |-> opt.EponymousOnly,
                  stateful |-> stateful,
                  saved |-> TRUE,
                  xCreate |-> "x_connect_tramp",
                  xConnect |-> "x_connect_tramp",
                  xUpdate |-> OptionalSlots(opt).xUpdate,
                  xBegin |-> OptionalSlots(opt).xBegin,
                  xSync |-> OptionalSlots(opt).xSync,
                  xCommit |-> OptionalSlots(opt).xCommit,
                  xRollback |-> OptionalSlots(opt).xRollback,
                  xFindFunction |-> OptionalSlots(opt).xFindFunction,
                  opt |-> opt]
    /\ UNCHANGED <<vtab, lost, vcall, aborted>>
    /\ UNCHANGED notVtab

\* ExtensionApi.CreateModule with its options: a stateful eponymous-only
\* module is turned down before anything is saved; otherwise the slots are
\* filled in and the module is saved and handed to sqlite3_create_module_v2.
CreateModule_options ==
    /\ ~aborted
    /\ sqliteModule.state = "none"
    /\ \E opt \in ModuleOptions, stateful \in BOOLEAN, r \in {SQLITE_OK, SQLITE_ERROR} :
        IF opt.EponymousOnly /\ stateful
          THEN sqliteModule' = [NoModule EXCEPT !.state = "rejected", !.opt = opt,
                                                !.eponymousOnly = TRUE, !.stateful = stateful]
          ELSE sqliteModule' =
                 [state |-> IF r = SQLITE_OK THEN "registered" ELSE "refused",
                  eponymousOnly |-> opt.EponymousOnly,
                  stateful |-> stateful,
                  saved |-> TRUE,
                  xCreate |-> IF ~opt.EponymousOnly THEN "x_connect_tramp"
                              ELSE IF stateful THEN "x_create_tramp" ELSE "nil",
                  xConnect |-> "x_connect_tramp",
                  xUpdate |-> OptionalSlots(opt).xUpdate,
                  xBegin |-> OptionalSlots(opt).xBegin,
                  xSync |-> OptionalSlots(opt).xSync,
                  xCommit |-> OptionalSlots(opt).xCommit,
                  xRollback |-> OptionalSlots(opt).xRollback,
                  xFindFunction |-> OptionalSlots(opt).xFindFunction,
                  opt |-> opt]
    /\ UNCHANGED <<vtab, lost, vcall, aborted>>
    /\ UNCHANGED notVtab

\* what _sqlite3_malloc answers inside _allocate_string
MallocResults == {"block", "null"}

\* a hypothetical _allocate_string that never fails
StringFaults_never(allocates, dst) == FALSE

\* _allocate_string(msg) with dst the answer of _sqlite3_malloc: a slice of
\* len(msg) + 1 bytes is laid over dst, unchecked; the copy and the
\* terminating zero are written through it, a nil pointer included
StringFaults(allocates, dst) == allocates /\ dst = "null"

\* the write through the nil pointer ends the process inside the trampoline:
\* no status goes back to the engine
StringFault(tramp, handlers, err) ==
    /\ vcall' = VCall("allocate_string", "fault", handlers, SQLITE_OK, err,
                      [caller |-> tramp])
    /\ aborted' = TRUE

\* create_connect_shared with fn = module.Create or module.Connect: the
\* handler may or may not call declare; its error decides the status; on
\* success its table is saved and handed to _allocate_virtual_table.
create_connect_shared_fn(op, tramp, fn) ==
    \E err \in HandlerErrors, declared \in BOOLEAN, allocated \in BOOLEAN,
       dst \in MallocResults :
        /\ err.kind # "other" => dst = "block"
        /\ IF StringFaults(err.kind = "other", dst)
             THEN StringFault(tramp, <<fn>>, err) /\ UNCHANGED vtab
           ELSE IF IsFailure(err)
             THEN /\ vcall' = VCall(tramp, op, <<fn>>,
                                    IF err.kind = "code" THEN err.code ELSE SQLITE_ERROR,
                                    err, [declared |-> declared])
                  /\ UNCHANGED <<vtab, aborted>>
             ELSE /\ vcall' = VCall(tramp, op, <<fn>>,
                                    IF allocated THEN SQLITE_OK ELSE SQLITE_NOMEM,
                                    err, [declared |-> declared])
                  /\ vtab' = IF allocated
                               THEN [exists |-> TRUE, zErrMsg |-> "", cursor |-> FALSE]
                               ELSE vtab
                  /\ UNCHANGED aborted

\* the trampoline a slot of the sqlite3_module holds
SlotCall(op, slot) ==
    IF slot = "x_create_tramp"
      THEN create_connect_shared_fn(op, slot, "Create")    \* x_create_tramp
      ELSE create_connect_shared_fn(op, slot, "Connect")   \* x_connect_tramp

\* the engine's create operation (CREATE VIRTUAL TABLE): sqliteModule.xCreate
xCreate ==
    /\ ~aborted
    /\ sqliteModule.state = "registered"
    /\ sqliteModule.xCreate # "nil"
    /\ ~vtab.exists
    /\ SlotCall("create", sqliteModule.xCreate)
    /\ UNCHANGED <<sqliteModule, lost>>
    /\ UNCHANGED notVtab

\* the engine's connect operation: sqliteModule.xConnect
xConnect ==
    /\ ~aborted
    /\ sqliteModule.state = "registered"
    /\ ~vtab.exists
    /\ SlotCall("connect", sqliteModule.xConnect)
    /\ UNCHANGED <<sqliteModule, lost>>
    /\ UNCHANGED notVtab

\* set_error_message(vtab, err): the previous message, if any, is freed, and a
\* copy of err.Error(), made by _allocate_string, becomes the table's zErrMsg
set_error_message(t, err) == [t EXCEPT !.zErrMsg = err.text]

\* the status a trampoline returns for the handler's error: an ErrorCode
\* verbatim, SQLITE_ERROR (after set_error_message) for any other error
Status(err) ==
    IF err.kind = "nil" THEN SQLITE_OK
    ELSE IF err.kind = "code" THEN err.code ELSE SQLITE_ERROR
WithMessage(t, err) == IF err.kind = "other" THEN set_error_message(t, err) ELSE t

\* the keys the engine passes as argv[0] and argv[1] of xUpdate
KeyValues ==
    {IntV(Small(1)), IntV(Small(-1)), IntV(MaxInt64), TextV("1")}
\* argc of xUpdate: 1 for a delete, 2 + the number of columns otherwise
UpdateArgcs == {1, 3}
\* the rowids Insert chooses
InsertIds == {Small(7), MaxInt64}
NoRowid == [set |-> FALSE, id |-> Small(0)]

\* equivalent(typ, v0, v1) of x_update_tramp
equivalent(typ, v0, v1) ==
    IF typ = "INTEGER" THEN ValueInt(v0) = ValueInt(v1) \/ Int64(v0) = Int64(v1)
    ELSE IF typ = "FLOAT" THEN Float(v0) = Float(v1)
    ELSE IF typ = "TEXT" THEN Text(v0) = Text(v1)
    ELSE IF typ = "BLOB" THEN Blob(v0) = Blob(v1)
    ELSE FALSE

\* a buggy routing that falls through from the delete into the update
UpdateRoute_falls_through(argc, argv0, argv1) ==
    IF argc = 1 /\ Type(argv0) # "NULL" THEN <<"Delete", "Update">>
    ELSE IF Type(argv0) = "NULL" THEN <<"Insert">>
    ELSE IF equivalent(Type(argv0), argv0, argv1) THEN <<"Update">>
    ELSE <<"Replace">>

\* the write handlers x_update_tramp invokes for argc and argv, in order
UpdateRoute(argc, argv0, argv1) ==
    IF argc = 1 /\ Type(argv0) # "NULL" THEN <<"Delete">>
    ELSE IF Type(argv0) = "NULL" THEN <<"Insert">>
    ELSE IF equivalent(Type(argv0), argv0, argv1) THEN <<"Update">>
    ELSE <<"Replace">>

\* x_update_tramp. The engine passes argc = 1 with the key of the row to
\* delete, or argc > 1 with argv[0] NULL (insert, here with no rowid asked
\* for in argv[1]) or both keys (update). id is the rowid Insert returns.
x_update_tramp ==
    /\ ~aborted
    /\ vtab.exists
    /\ sqliteModule.xUpdate # "nil"
    /\ \E argc \in UpdateArgcs, argv0 \in KeyValues \cup {NullV},
          argv1 \in KeyValues \cup {NullV}, err \in HandlerErrors,
          id \in InsertIds \cup {Small(0)}, dst \in MallocResults :
        LET route == UpdateRoute(argc, argv0, argv1) IN
        /\ argc = 1 => (argv0 # NullV /\ argv1 = NullV)
        /\ argc > 1 => (argv0 = NullV <=> argv1 = NullV)
        /\ id \in InsertIds <=> route = <<"Insert">>
        /\ err.kind # "other" => dst = "block"
        /\ IF StringFaults(err.kind = "other", dst)
             THEN StringFault("x_update_tramp", route, err) /\ UNCHANGED vtab
             ELSE /\ UNCHANGED aborted
                  /\ vcall' = VCall("x_update_tramp", "update", route,
                                    IF IsFailure(err) THEN Status(err) ELSE SQLITE_OK, err,
                                    [argc |-> argc, argv0 |-> argv0, argv1 |-> argv1,
                                     id |-> id,
                                     rowid |-> IF route = <<"Insert">> /\ err = NilErr
                                               THEN [set |-> TRUE, id |-> id] ELSE NoRowid])
                  /\ vtab' = IF IsFailure(err) THEN WithMessage(vtab, err) ELSE vtab
    /\ UNCHANGED <<sqliteModule, lost>>
    /\ UNCHANGED notVtab

\* bound: the constraints the engine passes to xBestIndex
MaxConstraints == 1

\* x_best_index_tramp with k input constraints: the handler fails, returns no
\* output (len = -1), or returns an output whose ConstraintUsage has len
\* entries, the last of them possibly nil. The loop copies every non-nil
\* entry into the usage slot of its index; the engine allocated k slots, and
\* indexing the slice of k slots at k panics.
x_best_index_tramp_call ==
    /\ ~aborted
    /\ vtab.exists
    /\ \E k \in 0 .. MaxConstraints, err \in HandlerErrors,
          len \in -1 .. MaxConstraints + 1, lastNil \in BOOLEAN,
          dst \in MallocResults :
        LET copied == IF lastNil THEN len - 1 ELSE len
            detail(written) == [k |-> k, len |-> len, lastNil |-> lastNil, written |-> written]
            \* the message of a failure, or the idxStr of a copied output
            allocates == \/ err.kind = "other"
                         \/ ~IsFailure(err) /\ len # -1 /\ copied <= k
        IN
        /\ len <= k + 1
        /\ IsFailure(err) => len = -1
        /\ lastNil => len > 0
        /\ ~allocates => dst = "block"
        /\ IF StringFaults(allocates, dst)
             THEN StringFault("x_best_index_tramp", <<"BestIndex">>, err) /\ UNCHANGED vtab
           ELSE IF IsFailure(err)
             THEN /\ vcall' = VCall("x_best_index_tramp", "call", <<"BestIndex">>,
                                    Status(err), err, detail(0))
                  /\ vtab' = WithMessage(vtab, err)
                  /\ UNCHANGED aborted
             ELSE IF len = -1
               THEN /\ vcall' = VCall("x_best_index_tramp", "call", <<"BestIndex">>,
                                      SQLITE_ERROR, err, detail(0))
                    /\ UNCHANGED <<vtab, aborted>>
               ELSE IF copied > k
                 THEN /\ vcall' = VCall("x_best_index_tramp", "panic", <<"BestIndex">>,
                                        SQLITE_OK, err, detail(k))
                      /\ aborted' = TRUE
                      /\ UNCHANGED vtab
                 ELSE /\ vcall' = VCall("x_best_index_tramp", "call", <<"BestIndex">>,
                                        SQLITE_OK, err, detail(copied))
                      /\ UNCHANGED <<vtab, aborted>>
    /\ UNCHANGED <<sqliteModule, lost>>
    /\ UNCHANGED notVtab

\* the body the begin, sync, commit, rollback, filter and next trampolines
\* share: restore, call the handler, map its error
MethodTramp(tramp, handler, err, dst) ==
    /\ err.kind # "other" => dst = "block"
    /\ IF StringFaults(err.kind = "other", dst)
         THEN StringFault(tramp, <<handler>>, err) /\ UNCHANGED vtab
         ELSE /\ vcall' = VCall(tramp, "call", <<handler>>, Status(err), err, <<>>)
              /\ vtab' = WithMessage(vtab, err)
              /\ UNCHANGED aborted

\* x_begin_tramp
x_begin_tramp ==
    /\ ~aborted
    /\ vtab.exists
    /\ sqliteModule.xBegin # "nil"
    /\ \E err \in HandlerErrors, dst \in MallocResults :
        MethodTramp("x_begin_tramp", "Begin", err, dst)
    /\ UNCHANGED <<sqliteModule, lost>>
    /\ UNCHANGED notVtab

\* x_sync_tramp
x_sync_tramp ==
    /\ ~aborted
    /\ vtab.exists
    /\ sqliteModule.xSync # "nil"
    /\ \E err \in HandlerErrors, dst \in MallocResults :
        MethodTramp("x_sync_tramp", "Sync", err, dst)
    /\ UNCHANGED <<sqliteModule, lost>>
    /\ UNCHANGED notVtab

\* x_commit_tramp
x_commit_tramp ==
    /\ ~aborted
    /\ vtab.exists
    /\ sqliteModule.xCommit # "nil"
    /\ \E err \in HandlerErrors, dst \in MallocResults :
        MethodTramp("x_commit_tramp", "Commit", err, dst)
    /\ UNCHANGED <<sqliteModule, lost>>
    /\ UNCHANGED notVtab

\* x_rollback_tramp
x_rollback_tramp ==
    /\ ~aborted
    /\ vtab.exists
    /\ sqliteModule.xRollback # "nil"
    /\ \E err \in HandlerErrors, dst \in MallocResults :
        MethodTramp("x_rollback_tramp", "Rollback", err, dst)
    /\ UNCHANGED <<sqliteModule, lost>>
    /\ UNCHANGED notVtab

\* x_filter_tramp
x_filter_tramp ==
    /\ ~aborted
    /\ vtab.exists
    /\ vtab.cursor
    /\ \E err \in HandlerErrors, dst \in MallocResults :
        MethodTramp("x_filter_tramp", "Filter", err, dst)
    /\ UNCHANGED <<sqliteModule, lost>>
    /\ UNCHANGED notVtab

\* x_next_tramp
x_next_tramp ==
    /\ ~aborted
    /\ vtab.exists
    /\ vtab.cursor
    /\ \E err \in HandlerErrors, dst \in MallocResults :
        MethodTramp("x_next_tramp", "Next", err, dst)
    /\ UNCHANGED <<sqliteModule, lost>>
    /\ UNCHANGED notVtab

\* x_rowid_tramp: the rowid is written when Rowid returns no error
x_rowid_tramp ==
    /\ ~aborted
    /\ vtab.exists
    /\ vtab.cursor
    /\ \E err \in HandlerErrors, id \in InsertIds, dst \in MallocResults :
        /\ err.kind # "other" => dst = "block"
        /\ IF StringFaults(err.kind = "other", dst)
             THEN StringFault("x_rowid_tramp", <<"Rowid">>, err) /\ UNCHANGED vtab
             ELSE /\ vcall' = VCall("x_rowid_tramp", "call", <<"Rowid">>, Status(err), err,
                                    [rowid |-> IF err = NilErr THEN [set |-> TRUE, id |-> id]
                                               ELSE NoRowid])
                  /\ vtab' = WithMessage(vtab, err)
                  /\ UNCHANGED aborted
    /\ UNCHANGED <<sqliteModule, lost>>
    /\ UNCHANGED notVtab

\* x_open_tramp: Open fails, or its cursor is saved and handed to
\* _allocate_virtual_cursor
x_open_tramp_call ==
    /\ ~aborted
    /\ vtab.exists
    /\ ~vtab.cursor
    /\ \E err \in HandlerErrors, allocated \in BOOLEAN, dst \in MallocResults :
        /\ err.kind # "other" => dst = "block"
        /\ IF StringFaults(err.kind = "other", dst)
             THEN StringFault("x_open_tramp", <<"Open">>, err) /\ UNCHANGED vtab
           ELSE IF err # NilErr
             THEN /\ vcall' = VCall("x_open_tramp", "call", <<"Open">>, Status(err), err, <<>>)
                  /\ vtab' = WithMessage(vtab, err)
                  /\ UNCHANGED aborted
             ELSE /\ vcall' = VCall("x_open_tramp", "call", <<"Open">>,
                                    IF allocated THEN SQLITE_OK ELSE SQLITE_NOMEM, err, <<>>)
                  /\ vtab' = [vtab EXCEPT !.cursor = allocated]
                  /\ UNCHANGED aborted
    /\ UNCHANGED <<sqliteModule, lost>>
    /\ UNCHANGED notVtab

\* x_close_tramp: the message goes to cur.pVtab; the deferred function then
\* releases the cursor
x_close_tramp_call ==
    /\ ~aborted
    /\ vtab.exists
    /\ vtab.cursor
    /\ \E err \in HandlerErrors, dst \in MallocResults :
        /\ err.kind # "other" => dst = "block"
        /\ IF StringFaults(err.kind = "other", dst)
             THEN StringFault("x_close_tramp", <<"Close">>, err) /\ UNCHANGED vtab
             ELSE /\ vcall' = VCall("x_close_tramp", "call", <<"Close">>, Status(err), err, <<>>)
                  /\ vtab' = [WithMessage(vtab, err) EXCEPT !.cursor = FALSE]
                  /\ UNCHANGED aborted
    /\ UNCHANGED <<sqliteModule, lost>>
    /\ UNCHANGED notVtab

\* the body of x_disconnect_tramp and x_destroy_tramp: the handler's error is
\* mapped, a message is stored in tab.zErrMsg, and then the deferred function
\* frees the go_virtual_table itself; sqlite3_free on the struct does not
\* free the string zErrMsg points to.
TeardownTramp(tramp, handler, err, dst) ==
    /\ err.kind # "other" => dst = "block"
    /\ IF StringFaults(err.kind = "other", dst)
         THEN StringFault(tramp, <<handler>>, err) /\ UNCHANGED <<vtab, lost>>
         ELSE /\ vcall' = VCall(tramp, "call", <<handler>>, Status(err), err,
                                [message |-> WithMessage(vtab, err).zErrMsg])
              /\ lost' = (lost \/ WithMessage(vtab, err).zErrMsg # "")
              /\ vtab' = NoTable
              /\ UNCHANGED aborted

\* x_disconnect_tramp
x_disconnect_tramp_call ==
    /\ ~aborted
    /\ vtab.exists
    /\ ~vtab.cursor
    /\ \E err \in HandlerErrors, dst \in MallocResults :
        TeardownTramp("x_disconnect_tramp", "Disconnect", err, dst)
    /\ UNCHANGED sqliteModule
    /\ UNCHANGED notVtab

\* x_destroy_tramp
x_destroy_tramp_call ==
    /\ ~aborted
    /\ vtab.exists
    /\ ~vtab.cursor
    /\ \E err \in HandlerErrors, dst \in MallocResults :
        TeardownTramp("x_destroy_tramp", "Destroy", err, dst)
    /\ UNCHANGED sqliteModule
    /\ UNCHANGED notVtab

\* the engine consumes the message of a failed call: it copies zErrMsg,
\* frees it and clears the field; the call is over
engine_takes_message ==
    /\ ~aborted
    /\ vtab.exists
    /\ vtab.zErrMsg # ""
    /\ vtab' = [vtab EXCEPT !.zErrMsg = ""]
    /\ vcall' = NoVCall
    /\ UNCHANGED <<sqliteModule, lost, aborted>>
    /\ UNCHANGED notVtab

NextVtab ==
    \/ CreateModule_options
    \/ xCreate
    \/ xConnect
    \/ x_best_index_tramp_call
    \/ x_open_tramp_call
    \/ x_update_tramp
    \/ x_close_tramp_call
    \/ x_filter_tramp
    \/ x_next_tramp
    \/ x_rowid_tramp
    \/ x_begin_tramp
    \/ x_sync_tramp
    \/ x_commit_tramp
    \/ x_rollback_tramp
    \/ x_disconnect_tramp_call
    \/ x_destroy_tramp_call
    \/ engine_takes_message

(***************************************************************************)
(* The arguments and the result of one callback invocation: toValues, as   *)
(* the function, filter and update trampolines call it, and                *)
(* Context.ResultText.                                                     *)
(***************************************************************************)

\* the length of the array type toValues lays over the engine's vector
ArraySize == 127
\* bound: the columns of a virtual table
MaxColumns == 127
\* bound: the bytes of a text result
MaxTextLen == 2

\* the engine's argument vector of n cells, in its order
Cells(n) == [i \in 1 .. n |-> i]

NoValues == [tramp |-> "none", n |-> 0, panic |-> FALSE, out |-> <<>>]
SliceBoundsPanic == [panic |-> TRUE, out |-> <<>>]

\* toValues(count, va): nil for a count of zero; otherwise the vector is read
\* as an array of ArraySize values and sliced to [:n:n], which panics for an n
\* above the array's length
toValues(count, va) ==
    LET n == count IN
    IF n > 0
      THEN IF n > ArraySize THEN SliceBoundsPanic
           ELSE [panic |-> FALSE, out |-> SubSeq(va, 1, n)]
      ELSE [panic |-> FALSE, out |-> <<>>]

ValuesCall(tramp, n) ==
    [tramp |-> tramp, n |-> n,
     panic |-> toValues(n, Cells(n)).panic, out |-> toValues(n, Cells(n)).out]

\* the trampolines of a function that take arguments
FunctionTramps ==
    {"scalar_function_apply_tramp", "aggregate_function_step_tramp",
     "window_function_inverse_tramp"}

\* scalar_function_apply_tramp, aggregate_function_step_tramp and
\* window_function_inverse_tramp hand toValues(n, v) to the function; the
\* counts taken here go up to the length of the array
function_tramp_toValues ==
    /\ \E tramp \in FunctionTramps, n \in 0 .. ArraySize :
        values' = ValuesCall(tramp, n)
    /\ UNCHANGED result
    /\ UNCHANGED notCall

\* x_filter_tramp hands toValues(argc, valarray) to Filter
x_filter_tramp_toValues ==
    /\ \E argc \in 0 .. ArraySize : values' = ValuesCall("x_filter_tramp", argc)
    /\ UNCHANGED result
    /\ UNCHANGED notCall

\* x_update_tramp: argv = toValues(c, v); the engine passes one cell for a
\* delete and two more than the table has columns otherwise
x_update_tramp_toValues ==
    /\ \E cols \in 0 .. MaxColumns, delete \in BOOLEAN :
        /\ delete => cols = 0
        /\ values' = ValuesCall("x_update_tramp", IF delete THEN 1 ELSE cols + 2)
    /\ UNCHANGED result
    /\ UNCHANGED notCall

\* text as bytes; 0 is the NUL byte
Bytes == {0, 97}
RECURSIVE StringsOf(_)
StringsOf(n) ==
    IF n = 0 THEN {<<>>}
    ELSE StringsOf(n - 1) \cup {Append(t, b) : t \in StringsOf(n - 1), b \in Bytes}
Strings == StringsOf(MaxTextLen)

\* a C pointer to characters: nil, or the bytes it points to
NilChars == [nil |-> TRUE, bytes |-> <<>>]
\* C.CString(v): a malloc'ed copy of the bytes of v and a closing NUL
CString(v) == [nil |-> FALSE, bytes |-> Append(v, 0)]

\* the value the engine holds as the result of the invocation
SqlNull == [type |-> "NULL", bytes |-> <<>>]
SqlText(b) == [type |-> "TEXT", bytes |-> b]
NoResult == [call |-> "none", v |-> <<>>, out |-> SqlNull]

\* sqlite3_result_text(ctx, z, n, free) for n >= 0: the first n bytes at z as
\* a text; a nil z makes the result SQL NULL
sqlite3_result_text(z, n) ==
    IF z.nil THEN SqlNull ELSE SqlText(SubSeq(z.bytes, 1, n))

\* Context.ResultText(v): cv stays nil for the empty string
ResultText(v) ==
    LET cv == IF Len(v) # 0 THEN CString(v) ELSE NilChars IN
    sqlite3_result_text(cv, Len(v))

\* a function calls ctx.ResultText(v)
Context_ResultText ==
    /\ \E v \in Strings : result' = [call |-> "ResultText", v |-> v, out |-> ResultText(v)]
    /\ UNCHANGED values
    /\ UNCHANGED notCall

NextCall ==
    \/ function_tramp_toValues
    \/ x_filter_tramp_toValues
    \/ x_update_tramp_toValues
    \/ Context_ResultText

(***************************************************************************)
(* The csv example (_examples/csv): a table over a file of lines and one   *)
(* cursor reading it through a csv.Reader. Line i of the file holds the    *)
(* record i; the reader is the number of lines it has consumed.            *)
(***************************************************************************)

\* bound: the lines of the file
MaxLines == 5
\* bound: the Filter calls followed on one cursor
MaxFilters == 3

NoCsvTable == [connected |-> FALSE, lines |-> 0, skipHeader |-> FALSE]
\* current = 0 stands for the nil row
NoCsvCursor == [open |-> FALSE, csv |-> 0, current |-> 0, rowid |-> -1]
NoCsvScan == [op |-> "none", eof |-> FALSE, filters |-> 0]

\* csv.Reader.Read on a reader that consumed off lines of a file of n lines:
\* the next record, or io.EOF
ReaderRead(off, n) ==
    IF off < n THEN [eof |-> FALSE, record |-> off + 1, off |-> off + 1]
    ELSE [eof |-> TRUE, record |-> 0, off |-> off]

\* the data rows of the table: every line but the header
FirstDataRow == IF csvTable.skipHeader THEN 2 ELSE 1
DataRows == csvTable.lines - (FirstDataRow - 1)

\* CsvModule.Connect: the file opens and its first line is read (an empty
\* file fails the connect); header=yes makes the table skip that line
CsvModule_Connect ==
    /\ ~csvTable.connected
    /\ \E lines \in 1 .. MaxLines, readHeader \in BOOLEAN :
        csvTable' = [connected |-> TRUE, lines |-> lines, skipHeader |-> readHeader]
    /\ UNCHANGED <<csvCursor, csvScan>>
    /\ UNCHANGED notCsv

\* CsvVirtualTable.Open: a new reader on the file, moved past the header
CsvVirtualTable_Open ==
    /\ csvTable.connected
    /\ ~csvCursor.open
    /\ csvCursor' = [open |-> TRUE,
                     csv |-> IF csvTable.skipHeader THEN ReaderRead(0, csvTable.lines).off ELSE 0,
                     current |-> 0,
                     rowid |-> -1]
    /\ csvScan' = NoCsvScan
    /\ UNCHANGED csvTable
    /\ UNCHANGED notCsv

\* CsvCursor.Next on cursor c: at io.EOF the rowid becomes -1, otherwise the
\* rowid grows by one and the record becomes the current row
CsvNext(c) ==
    LET r == ReaderRead(c.csv, csvTable.lines) IN
    IF r.eof THEN [c EXCEPT !.rowid = -1]
    ELSE [c EXCEPT !.csv = r.off, !.rowid = c.rowid + 1, !.current = r.record]

\* CsvCursor.Filter: c.rowid = 0; return c.Next()
CsvFilter(c) == CsvNext([c EXCEPT !.rowid = 0])

\* CsvCursor.Eof
CsvEof(c) == c.rowid < 0

\* the engine calls xFilter on the open cursor
CsvCursor_Filter ==
    /\ csvCursor.open
    /\ csvScan.filters < MaxFilters
    /\ csvCursor' = CsvFilter(csvCursor)
    /\ csvScan' = [op |-> "Filter",
                   eof |-> ReaderRead(csvCursor.csv, csvTable.lines).eof,
                   filters |-> csvScan.filters + 1]
    /\ UNCHANGED csvTable
    /\ UNCHANGED notCsv

\* the engine calls xNext: after a Filter, and only while xEof answers false
CsvCursor_Next ==
    /\ csvCursor.open
    /\ csvScan.op # "none"
    /\ ~CsvEof(csvCursor)
    /\ csvCursor' = CsvNext(csvCursor)
    /\ csvScan' = [csvScan EXCEPT !.op = "Next",
                                  !.eof = ReaderRead(csvCursor.csv, csvTable.lines).eof]
    /\ UNCHANGED csvTable
    /\ UNCHANGED notCsv

\* CsvCursor.Close
CsvCursor_Close ==
    /\ csvCursor.open
    /\ csvCursor' = NoCsvCursor
    /\ csvScan' = NoCsvScan
    /\ UNCHANGED csvTable
    /\ UNCHANGED notCsv

NextCsv ==
    \/ CsvModule_Connect
    \/ CsvVirtualTable_Open
    \/ CsvCursor_Filter
    \/ CsvCursor_Next
    \/ CsvCursor_Close

(***************************************************************************)
(* Conn.Exec: prepare, the deferred Finalize, the trailing-bytes check,    *)
(* the step loop with the row callback, and the return.                    *)
(***************************************************************************)

\* bound: the rows a statement returns
MaxRows == 3

\* pc: the statement of Exec about to run; rows: the rows the statement has;
\* stepped: the rows Step returned so far; called: the rows fn was called
\* with; finalized: the calls of Stmt.Finalize; err: the named result;
\* earlier: the first error met before the deferred function ran; ferr: what
\* Finalize returned
NoExec ==
    [pc |-> "idle", prepared |-> FALSE, trailingBytes |-> 0, fn |-> "nil",
     rows |-> 0, stepped |-> 0, called |-> <<>>, finalized |-> 0,
     err |-> NoError, earlier |-> NoError, ferr |-> NoError]

\* fn is nil or a callback
Callbacks == {"nil", "fn"}

\* conn.Prepare(query): an error, or a statement and the count of the bytes
\* after it; with the statement registered, Finalize is deferred
Conn_Exec_Prepare ==
    /\ exec.pc = "idle"
    /\ \E failed \in BOOLEAN, trailing \in {0, 1}, rows \in 0 .. MaxRows, fn \in Callbacks :
        IF failed
          THEN /\ trailing = 0 /\ rows = 0 /\ fn = "nil"
               /\ exec' = [exec EXCEPT !.pc = "returned", !.err = "prepare"]
          ELSE exec' = [exec EXCEPT !.pc = "trailing", !.prepared = TRUE,
                                    !.trailingBytes = trailing, !.rows = rows, !.fn = fn]
    /\ UNCHANGED notExec

\* if trailingBytes != 0 { return fmt.Errorf(...) }; otherwise the arguments
\* are bound (a failed bind is reported by Step) and the loop starts
Conn_Exec_trailing ==
    /\ exec.pc = "trailing"
    /\ exec' = IF exec.trailingBytes # 0
                 THEN [exec EXCEPT !.pc = "deferred", !.err = "trailing", !.earlier = "trailing"]
                 ELSE [exec EXCEPT !.pc = "step"]
    /\ UNCHANGED notExec

\* hasRow, err := stmt.Step(): an error at any step, the next row while rows
\* are left, no row after the last; a row goes to fn when fn is not nil
Conn_Exec_Step ==
    /\ exec.pc = "step"
    /\ \E failed \in BOOLEAN :
        exec' = IF failed
                  THEN [exec EXCEPT !.pc = "deferred", !.err = "step", !.earlier = "step"]
                ELSE IF exec.stepped = exec.rows
                  THEN [exec EXCEPT !.pc = "deferred", !.err = NoError]
                ELSE [exec EXCEPT !.stepped = exec.stepped + 1,
                                  !.pc = IF exec.fn # "nil" THEN "fn" ELSE "step"]
    /\ UNCHANGED notExec

\* if err := fn(stmt); err != nil { return err }
Conn_Exec_fn ==
    /\ exec.pc = "fn"
    /\ \E failed \in BOOLEAN :
        exec' = IF failed
                  THEN [exec EXCEPT !.called = Append(exec.called, exec.stepped),
                                    !.pc = "deferred", !.err = "callback", !.earlier = "callback"]
                  ELSE [exec EXCEPT !.called = Append(exec.called, exec.stepped),
                                    !.pc = "step"]
    /\ UNCHANGED notExec

\* sqlite3_finalize answers the status of the latest evaluation that failed
FinalizeResult == IF exec.earlier = "step" THEN "finalize" ELSE NoError

\* a deferred function that always stores the result of Finalize
DeferredErr_overwrites(err, ferr) == ferr

\* if ferr := stmt.Finalize(); err == nil { err = ferr }
DeferredErr(err, ferr) == IF err = NoError THEN ferr ELSE err

\* the deferred function runs as Exec returns
Conn_Exec_deferred ==
    /\ exec.pc = "deferred"
    /\ exec' = [exec EXCEPT !.pc = "returned",
                            !.finalized = exec.finalized + 1,
                            !.ferr = FinalizeResult,
                            !.err = DeferredErr(exec.err, FinalizeResult)]
    /\ UNCHANGED notExec

NextExec ==
    \/ Conn_Exec_Prepare
    \/ Conn_Exec_trailing
    \/ Conn_Exec_Step
    \/ Conn_Exec_fn
    \/ Conn_Exec_deferred

(***************************************************************************)
(* Properties of the blocking-wait coordinator.                            *)
(***************************************************************************)

\* the statements of _wait_for_unlock_notify after a successful arming
AfterArming == {"w_lock", "w_check", "w_cond", "w_relock", "w_unlock"}

\* C1: no lost wake-up. Once arming succeeded, whenever the fired flag is set
\* (the fire ran inside the arming call, before the waiter took the mutex, or
\* while the waiter was blocked), the waiter leaves _wait_for_unlock_notify.
C1_NoLostWakeup == (pc \in AfterArming /\ fired = 1) ~> (pc = "w_ret")

\* C1 witness: the waiter blocked in the wait, was signalled and returned.
C1_Witness == pc = "w_ret" /\ wokenBy = "signal" /\ fired = 1 /\ res = SQLITE_OK

\* C2: a status of sqlite3_step whose primary code is SQLITE_LOCKED and whose
\* extended code is not SQLITE_LOCKED_SHAREDCACHE makes step return that status
\* at once: no wait_for_unlock_notify call, no further sqlite3_step call.
C2_OtherLockedReturnsAtOnce ==
    [][ ( /\ pc = "switch"
          /\ Primary(res) = SQLITE_LOCKED
          /\ res # SQLITE_LOCKED_SHAREDCACHE
          /\ pc' # pc )
        => ( /\ pc' = "done"
             /\ ret' = [row |-> FALSE, err |-> res]
             /\ waitCalls' = waitCalls
             /\ stepCalls' = stepCalls ) ]_vars

\* C2 witness: step has returned SQLITE_LOCKED_VTAB without any wait.
C2_Witness ==
    /\ pc = "done"
    /\ res = SQLITE_LOCKED_VTAB
    /\ ret = [row |-> FALSE, err |-> SQLITE_LOCKED_VTAB]
    /\ waitCalls = 0

\* C3: _wait_for_unlock_notify returns SQLITE_OK only with the fired flag set.
C3_ReturnsOnlyWhenFired == (pc = "w_ret" /\ res = SQLITE_OK) => fired = 1

\* C3 case: the wait was entered, and ended by a wake-up that no fire caused.
C3_SpuriousReturn == pc = "w_ret" /\ res = SQLITE_OK /\ wokenBy = "spurious"

(***************************************************************************)
(* Properties of the handle registry and its users.                        *)
(***************************************************************************)

TornDown == {"disconnected", "destroyed", "closed"}

\* C4: teardown releases the handle of a table or cursor exactly once. A live
\* table or cursor has not been released; once x_disconnect_tramp,
\* x_destroy_tramp or x_close_tramp has run on it (whatever the handler
\* returned) its handle was unref'ed once and its native struct freed once; the
\* teardown's own restore came before the unref (it read the saved value), and
\* no trampoline restored a handle after its unref.
C4_TeardownReleasesOnce ==
    /\ ~stale
    /\ \A o \in Ids :
        objs[o].kind \in {"table", "cursor"} =>
          /\ objs[o].unrefs <= 1
          /\ objs[o].frees <= 1
          /\ objs[o].st = "live" => objs[o].unrefs = 0 /\ objs[o].frees = 0
          /\ objs[o].st \in TornDown =>
               /\ objs[o].unrefs = 1
               /\ objs[o].frees = 1
               /\ Restore(store, objs[o].h) # objs[o].val
               /\ last.obj = o => last.got = objs[o].val

\* C4 witness: a cursor closed and its table destroyed, both handlers failing.
C4_Witness ==
    \E c \in Ids :
        /\ objs[c].kind = "cursor" /\ objs[c].st = "closed"
        /\ objs[c].rc = SQLITE_ERROR /\ objs[c].unrefs = 1
        /\ objs[objs[c].parent].st = "destroyed"
        /\ objs[objs[c].parent].rc = SQLITE_ERROR
        /\ objs[objs[c].parent].unrefs = 1

\* C5: every handle minted by CreateFunction or CreateCollation is released
\* exactly once: never twice, not while the registration is live, and once the
\* registration was refused, failed or retired its binding is gone.
C5_FunctionHandleReleasedOnce ==
    \A o \in Ids :
        objs[o].kind \in {"function", "collation"} =>
          /\ objs[o].unrefs <= 1
          /\ objs[o].st = "live" =>
               objs[o].unrefs = 0 /\ Restore(store, objs[o].h) = objs[o].val
          /\ objs[o].st # "live" =>
               objs[o].unrefs = 1 /\ Restore(store, objs[o].h) # objs[o].val

\* C5 witness: a function of unknown type refused by the bridge, a collation
\* whose registration failed, and a function retired by the engine.
C5_Witness ==
    \E f, g, c \in Ids :
        /\ objs[f].kind = "function" /\ objs[f].st = "rejected"
        /\ objs[g].kind = "function" /\ objs[g].st = "retired"
        /\ objs[c].kind = "collation" /\ objs[c].st = "failed"

\* C6: handle round trip. While a handle is live the registry binds it to the
\* value it was minted for, whatever was saved, restored or unref'ed meanwhile,
\* and every trampoline's restore returned exactly that value.
C6_HandleRoundTrip ==
    /\ \A o \in Ids :
        objs[o].st = "live" => Restore(store, objs[o].h) = objs[o].val
    /\ last.obj # 0 => last.got = objs[last.obj].val

\* C6 witness: a trampoline restored a live handle whose address had been used
\* by an earlier, released handle, while another handle is live too.
C6_Witness ==
    \E o, p, q \in Ids :
        /\ last.obj = o /\ objs[o].st = "live" /\ last.got = objs[o].val
        /\ p < o /\ objs[p].h = objs[o].h /\ objs[p].unrefs = 1
        /\ q # o /\ objs[q].st = "live"

(***************************************************************************)
(* Properties of the aggregate context store and the Sum window aggregate. *)
(***************************************************************************)

\* C7: once aggregate_function_final_tramp has run for a group, the store
\* holds no entry under that group's context pointer, whether Final returned
\* or panicked; no group without a live aggregate context has an entry.
C7_FinalEvictsEntry ==
    /\ lastCall.tramp = "final" => aggregateDataStore[lastCall.id] = NilData
    /\ \A g \in Groups : ~aggCtx[g] => aggregateDataStore[g] = NilData

\* Final panicked on a group that had an accumulator
C7_Witness ==
    /\ lastCall.tramp = "final"
    /\ lastCall.outcome = "panic"
    /\ crashed
    /\ pre # NilData
    /\ lastCall.id # Nil

\* C8: a call of window_function_value_tramp leaves aggregateDataStore as it
\* was: no entry is added, changed or removed.
C8_ValueKeepsStore ==
    [][lastCall'.tramp = "value" => aggregateDataStore' = aggregateDataStore]_vars

\* Value reported the running sum of a group that has an accumulator
C8_Witness ==
    /\ lastCall.tramp = "value"
    /\ pre # NilData
    /\ lastCall.out.kind # "null"
    /\ aggregateDataStore[lastCall.id] = pre

\* C9: for integer input on an integer-only accumulator, Step(x) followed by
\* Inverse(x) leaves every field of the accumulator (iSum, rSum, count,
\* approx) as it was before the Step.
C9_StepInverseRestores ==
    [][(/\ lastCall.tramp = "step"
        /\ Type(lastCall.v) = "INTEGER"
        /\ (pre = NilData \/ ~pre.approx)
        /\ lastCall'.tramp = "inverse"
        /\ lastCall'.outcome = "ok"
        /\ lastCall'.g = lastCall.g
        /\ lastCall'.v = lastCall.v)
       => aggregateDataStore'[lastCall'.id] =
             (IF pre = NilData THEN ZeroSumContext ELSE pre)]_vars

\* every stepped row of an integer-only group has been inverted again, and the
\* accumulator still counts rows
C9_InverseKeepsCount ==
    /\ lastCall.tramp = "inverse"
    /\ frame[lastCall.g] = <<>>
    /\ ~aggregateDataStore[lastCall.id].approx
    /\ aggregateDataStore[lastCall.id].count > 0
    /\ SumFinal(aggregateDataStore[lastCall.id]) # NullResult

\* C10: the result aggregate_function_final_tramp reports is the one the
\* steps and inverses of the group produce on their own, wherever
\* window_function_value_tramp was called among them.
C10_FinalIgnoresValueCalls ==
    (lastCall.tramp = "final" /\ lastCall.outcome # "panic")
        => lastCall.out = lastCall.want

\* Final reported a sum for a group whose steps had a Value call between them
C10_Witness ==
    /\ lastCall.tramp = "final"
    /\ lastCall.outcome = "between"
    /\ lastCall.out.kind # "null"
    /\ lastCall.out = lastCall.want

\* the rows of the series stepped into the group of the latest call
Stepped == lastCall.rows

\* C11: for integer rows v1..vN stepped on one group, Final reports the
\* exact integer v1+...+vN and a Value call after the k-th step reports
\* v1+...+vk.
C11_SumIsExact ==
    (lastCall.tramp \in {"value", "final"} /\ Stepped >= 1)
        => lastCall.out =
             [kind |-> "int64", n |-> ExactSum(series[lastCall.g], Stepped)]

\* the same for the series 1..10 (aggregate 55, running totals 1, 3, 6, ...)
\* and for every series whose running totals all fit into 64 bits
C11_SumIsExactWithin64Bits ==
    (/\ lastCall.tramp \in {"value", "final"}
     /\ Stepped >= 1
     /\ \A k \in 1..Stepped :
           Wrap64(ExactSum(series[lastCall.g], k)) = ExactSum(series[lastCall.g], k))
        => /\ lastCall.out =
                [kind |-> "int64", n |-> ExactSum(series[lastCall.g], Stepped)]
           /\ (series[lastCall.g] = generate_series /\ Stepped = 10)
                => lastCall.out.n = Small(55)
           /\ (series[lastCall.g] = generate_series /\ Stepped = 4)
                => lastCall.out.n = Small(10)

\* Final reported a sum that wrapped around
C11_SumWrapped ==
    /\ lastCall.tramp = "final"
    /\ Stepped = 2
    /\ series[lastCall.g] = <<MaxInt64, Small(1)>>
    /\ lastCall.out = [kind |-> "int64", n |-> MinInt64]


(***************************************************************************)
(* Properties of the virtual-table trampolines.                            *)
(***************************************************************************)

UpdateCall == vcall.tramp = "x_update_tramp"
BothKeys == UpdateCall /\ vcall.detail.argc > 1 /\ vcall.detail.argv0 # NullV
IntegerKeys ==
    BothKeys /\ Type(vcall.detail.argv0) = "INTEGER" /\ Type(vcall.detail.argv1) = "INTEGER"

\* C12: with both keys given as integers, x_update_tramp calls Update exactly
\* when argv[0] and argv[1] are the same 64-bit integer, and Replace when
\* they differ.
C12_IntegerKeysRouteByEquality ==
    IntegerKeys =>
        vcall.handlers = IF Int64(vcall.detail.argv0) = Int64(vcall.detail.argv1)
                           THEN <<"Update">> ELSE <<"Replace">>

\* C12: what the code does: the route follows equivalent, which also accepts
\* two integers whose low 32 bits agree, and compares the new key converted
\* to the old key's type.
C12_RouteFollowsEquivalent ==
    BothKeys =>
        vcall.handlers =
            IF equivalent(Type(vcall.detail.argv0), vcall.detail.argv0, vcall.detail.argv1)
              THEN <<"Update">> ELSE <<"Replace">>

\* C12: the keys -1 and 9223372036854775807 differ and Update was called
C12_DistinctKeysUpdated ==
    /\ IntegerKeys
    /\ vcall.detail.argv0 = IntV(Small(-1))
    /\ vcall.detail.argv1 = IntV(MaxInt64)
    /\ vcall.handlers = <<"Update">>

\* C13: a NULL argv[0] calls Insert and no other handler, and whenever the
\* trampoline then returns SQLITE_OK the rowid out-parameter holds the id
\* Insert returned.
C13_InsertSetsRowid ==
    (UpdateCall /\ vcall.detail.argc > 1 /\ vcall.detail.argv0 = NullV) =>
        /\ vcall.handlers = <<"Insert">>
        /\ vcall.status = SQLITE_OK =>
              vcall.detail.rowid = [set |-> TRUE, id |-> vcall.detail.id]

\* C13: what the code does: Insert alone is called, and the rowid is written
\* exactly when Insert's error is the nil interface value.
C13_InsertSetsRowidOnNilError ==
    (UpdateCall /\ vcall.detail.argc > 1 /\ vcall.detail.argv0 = NullV) =>
        /\ vcall.handlers = <<"Insert">>
        /\ vcall.detail.rowid =
              IF vcall.err = NilErr THEN [set |-> TRUE, id |-> vcall.detail.id] ELSE NoRowid

\* C13: Insert returned SQLITE_OK as its error value; the trampoline reported
\* success and left the rowid unwritten
C13_RowidNotWritten ==
    /\ UpdateCall
    /\ vcall.handlers = <<"Insert">>
    /\ vcall.err = CodeErr(SQLITE_OK)
    /\ vcall.status = SQLITE_OK
    /\ ~vcall.detail.rowid.set

BestIndexOutput ==
    vcall.tramp = "x_best_index_tramp" /\ ~IsFailure(vcall.err) /\ vcall.detail.len >= 0

\* C15: x_best_index_tramp guards the cardinality of ConstraintUsage: a list
\* whose length is neither 0 nor the number k of constraints makes the call
\* fail, without a crash and without any usage slot being written.
C15_UsageCardinalityGuarded ==
    (BestIndexOutput /\ vcall.detail.len \notin {0, vcall.detail.k}) =>
        /\ vcall.op # "panic"
        /\ ~aborted
        /\ vcall.status # SQLITE_OK
        /\ vcall.detail.written = 0

\* C15: what the code does: every non-nil entry is copied until the slots
\* run out
C15_UsageCopiedUnguarded ==
    BestIndexOutput =>
        LET copied == IF vcall.detail.lastNil THEN vcall.detail.len - 1 ELSE vcall.detail.len IN
        IF copied > vcall.detail.k
          THEN aborted /\ vcall.op = "panic" /\ vcall.detail.written = vcall.detail.k
          ELSE vcall.status = SQLITE_OK /\ vcall.detail.written = copied

\* C15: a list one longer than the constraints crashed the process
C15_BestIndexCrashed ==
    /\ BestIndexOutput
    /\ vcall.detail.k = 1
    /\ vcall.detail.len = 2
    /\ ~vcall.detail.lastNil
    /\ vcall.op = "panic"
    /\ aborted

TableReturned == vcall.op \in {"create", "connect"} /\ ~IsFailure(vcall.err)

\* C16: when the Create or Connect handler returns a table without having
\* called declare, create_connect_shared fails: an error status, and no
\* handle and no native table struct.
C16_UndeclaredTableRefused ==
    (TableReturned /\ ~vcall.detail.declared) =>
        vcall.status # SQLITE_OK /\ ~vtab.exists

\* C16: what the code does: the outcome does not depend on declare
C16_DeclareNotChecked ==
    TableReturned =>
        (vcall.status = SQLITE_OK /\ vtab.exists)
        \/ (vcall.status = SQLITE_NOMEM /\ ~vtab.exists)

\* C16: a table that was never declared is connected
C16_UndeclaredTableConnected ==
    /\ TableReturned
    /\ ~vcall.detail.declared
    /\ vcall.status = SQLITE_OK
    /\ vtab.exists

\* C17: for a StatefulModule the engine's create operation calls Create and
\* its connect operation calls Connect; for any other module both call
\* Connect.
C17_CreateGoesToCreate ==
    vcall.op \in {"create", "connect"} =>
        vcall.handlers = IF sqliteModule.stateful /\ vcall.op = "create"
                           THEN <<"Create">> ELSE <<"Connect">>

\* C17: what the code does: both operations call Connect, stateful or not
C17_AlwaysConnect ==
    vcall.op \in {"create", "connect"} =>
        vcall.handlers = <<"Connect">> /\ vcall.tramp = "x_connect_tramp"

\* C17: the create operation on a stateful module called Connect
C17_CreateRoutedToConnect ==
    /\ vcall.op = "create"
    /\ sqliteModule.stateful
    /\ vcall.handlers = <<"Connect">>
    /\ vcall.status = SQLITE_OK

\* C18: CreateModule with EponymousOnly(true) and a StatefulModule returns an
\* error without saving a handle or registering anything; with
\* EponymousOnly(true) and a module that is not stateful the create entry of
\* the registered module is nil.
C18_EponymousOnly ==
    sqliteModule.eponymousOnly =>
        IF sqliteModule.stateful
          THEN /\ sqliteModule.state = "rejected"
               /\ ~sqliteModule.saved
               /\ sqliteModule.xConnect = "nil"
               /\ ~vtab.exists
          ELSE /\ sqliteModule.state \in {"registered", "refused"}
               /\ sqliteModule.xCreate = "nil"
               /\ sqliteModule.xConnect = "x_connect_tramp"

\* C18: an eponymous-only module is registered and one of its tables connected
C18_Witness ==
    /\ sqliteModule.eponymousOnly
    /\ sqliteModule.state = "registered"
    /\ sqliteModule.xCreate = "nil"
    /\ vcall.op = "connect"
    /\ vtab.exists

\* C19: a panic of a handler never unwinds across the boundary: the
\* trampoline recovers it and reports a failure.
C19_PanicStaysInside == lastCall.outcome = "panic" => ~crashed

\* C19: Final panicked and the panic left the trampoline
C19_PanicEscaped ==
    /\ lastCall.tramp = "final"
    /\ lastCall.outcome = "panic"
    /\ lastCall.out = NullResult
    /\ crashed

ConventionTramps ==
    {"x_best_index_tramp", "x_open_tramp", "x_update_tramp", "x_close_tramp",
     "x_filter_tramp", "x_next_tramp", "x_rowid_tramp", "x_begin_tramp",
     "x_sync_tramp", "x_commit_tramp", "x_rollback_tramp",
     "x_disconnect_tramp", "x_destroy_tramp"}

\* a best-index call whose handler returned no output, and an open whose
\* cursor could not be allocated, end in a status of their own
OwnStatus ==
    \/ vcall.tramp = "x_best_index_tramp" /\ ~IsFailure(vcall.err) /\ vcall.detail.len = -1
    \/ vcall.tramp = "x_open_tramp" /\ vcall.err = NilErr /\ vcall.status = SQLITE_NOMEM

\* C20: in each of the thirteen trampolines an ErrorCode of the handler is the
\* status, any other error gives SQLITE_ERROR with the error's text held as
\* the table's zErrMsg, and a nil error gives SQLITE_OK.
C20_ErrorConvention ==
    (vcall.tramp \in ConventionTramps /\ vcall.op # "panic" /\ ~OwnStatus) =>
        /\ vcall.err.kind = "code" => vcall.status = vcall.err.code
        /\ vcall.err.kind = "other" =>
              /\ vcall.status = SQLITE_ERROR
              /\ vtab.exists
              /\ vtab.zErrMsg = vcall.err.text
        /\ vcall.err.kind = "nil" => vcall.status = SQLITE_OK

\* C20: what the code does: the convention holds in every trampoline that
\* leaves the table alive; disconnect and destroy free the table struct, and
\* any message stored in it is left behind.
C20_ConventionWhileTableLives ==
    /\ (vtab.exists /\ vcall.tramp \notin {"none", "x_connect_tramp"}) => C20_ErrorConvention
    /\ (vcall.tramp \in {"x_disconnect_tramp", "x_destroy_tramp"}) =>
          /\ ~vtab.exists
          /\ vcall.status = Status(vcall.err)
          /\ vcall.detail.message # "" => lost

\* C20: the error text of Destroy was stored in a table struct that was
\* freed before the trampoline returned
C20_MessageLostAtTeardown ==
    /\ vcall.tramp = "x_destroy_tramp"
    /\ vcall.err.kind = "other"
    /\ vcall.status = SQLITE_ERROR
    /\ vcall.detail.message = vcall.err.text
    /\ ~vtab.exists
    /\ lost

(***************************************************************************)
(* Properties of Stmt.Step: resets, bind errors, retries.                  *)
(***************************************************************************)

\* Stmt.Step has returned
Returned == pc = "idle" /\ ret # NoRet

\* the place in `native` of the event that made Step fail: 0 for a bind
\* error, which was pending before Step made any call
FailingEvent ==
    IF InReset THEN 0
    ELSE LET at == {i \in 1 .. Len(native) : native[i] \in {"step", "wait_fail"}} IN
         IF at = {} THEN 0 ELSE CHOOSE i \in at : \A j \in at : j <= i

\* C21: whenever Stmt.Step has returned a non-nil error, sqlite3_reset was
\* called on the statement after the failing event and before Step returned.
C21_ErrorMeansReset ==
    (Returned /\ ret.err # SQLITE_OK) =>
        \E i \in FailingEvent + 1 .. Len(native) : native[i] = "reset"

\* C21: Step returned the error of a failed wait_for_unlock_notify
C21_Witness ==
    /\ Returned
    /\ ret = [row |-> FALSE, err |-> SQLITE_LOCKED]
    /\ native = <<"step", "wait_fail", "reset">>

\* a Step on the pending-bind-error path is in progress
BindPath == pc = "reset" \/ (pc # "idle" /\ InReset)

\* C22: the Step that follows failing Bind*/Set* calls returns the error of
\* the first failure since the last Step, with rowReturned false and without
\* calling sqlite3_step, and leaves no error pending; a Step that follows no
\* failure executes the statement.
C22_BindErrorsDeferred ==
    [][/\ (pc = "idle" /\ pc' # "idle") =>
            IF FirstFailure(bindLog) # SQLITE_OK
              THEN /\ pc' = "reset"
                   /\ ret' = [row |-> FALSE, err |-> FirstFailure(bindLog)]
                   /\ bindErr' = SQLITE_OK
              ELSE pc' = "step"
       /\ BindPath =>
            /\ stepCalls' = stepCalls
            /\ ret' = ret
            /\ bindErr' = SQLITE_OK
            /\ pc' # "step"]_vars

\* C22: a Step has returned the SQLITE_ERROR of an unknown parameter name
\* without a sqlite3_step
C22_Witness ==
    /\ Returned
    /\ InReset
    /\ ret = [row |-> FALSE, err |-> SQLITE_ERROR]
    /\ bindErr = SQLITE_OK
    /\ stepCalls = 0

\* C27: in Stmt.step every sqlite3_step but the first comes after a
\* wait_for_unlock_notify that returned SQLITE_OK and exactly one
\* sqlite3_reset, in this order, and nothing else follows such a wait.
C27_ResetBeforeRetry ==
    ~InReset =>
        \A i \in 1 .. Len(native) :
            /\ (native[i] = "step" /\ i > 1) =>
                  i >= 3 /\ native[i-1] = "reset" /\ native[i-2] = "wait_ok"
            /\ (native[i] = "wait_ok" /\ i < Len(native)) =>
                  /\ native[i+1] = "reset"
                  /\ i + 2 <= Len(native) => native[i+2] = "step"

\* C27: a step was retried after a wait and a reset
C27_Witness ==
    /\ pc = "switch"
    /\ native = <<"step", "wait_ok", "reset", "step">>
    /\ res = SQLITE_ROW

\* C28: when sqlite3_unlock_notify fails, _wait_for_unlock_notify returns its
\* status at once, without the mutex and without a wait, and Stmt.step
\* returns that status as the error without another sqlite3_step.
C28_ArmingFailureReturns ==
    [][/\ (pc = "w_arm" /\ pc' # "w_arm" /\ res' # SQLITE_OK) =>
            pc' = "w_ret" /\ mu' = mu /\ wokenBy' = "none"
       /\ (pc = "w_ret" /\ pc' # "w_ret" /\ res # SQLITE_OK /\ ~InReset) =>
            /\ pc' = "done"
            /\ ret' = [row |-> FALSE, err |-> res]
            /\ stepCalls' = stepCalls]_vars

\* C28: arming failed and Step is about to return the status
C28_Witness ==
    /\ pc = "done"
    /\ ret = [row |-> FALSE, err |-> SQLITE_LOCKED]
    /\ native = <<"step", "wait_fail">>
    /\ wokenBy = "none"
    /\ mu = "free"
    /\ stepCalls = 1

\* the positions of the stepping thread inside _wait_for_unlock_notify, and
\* those where it is blocked: on the mutex or in pthread_cond_wait
InWait == {"w_clear", "w_arm", "w_lock", "w_check", "w_cond", "w_relock", "w_unlock"}
Blocked == {"w_lock", "w_cond", "w_relock"}

\* C30: a thread blocked inside _wait_for_unlock_notify holds neither the note
\* mutex (so _unlock_note_fire, once it asks for the mutex, gets it) nor, at
\* any point of the wait, aggregateDataLock.
C30_BlockedHoldsNoLock ==
    /\ pc \in Blocked => mu # "waiter"
    /\ (pc = "w_cond" /\ npc = "lock") => mu = "free"
    /\ pc \in InWait => "waiter" \notin Holders(aggregateDataLock)

\* C30: the waiter is in pthread_cond_wait; the other thread holds the write
\* lock inside a trampoline and the callback is still to come
C30_Witness ==
    /\ pc = "w_cond"
    /\ mu = "free"
    /\ pending
    /\ aggregateDataLock = [w |-> "notifier", r |-> {}]

(***************************************************************************)
(* Properties of the aggregate context store as a whole.                   *)
(***************************************************************************)

\* the context pointers that have an entry, and the groups whose aggregate
\* context is live (started and not finalized)
Entries == {p \in CtxPtrs : aggregateDataStore[p] # NilData}
Started == {g \in Groups : aggCtx[g]}

\* C29: after any sequence of trampoline calls the store holds entries only
\* under the context pointers of groups that were started and not finalized,
\* at most one for each, and it is empty once every started group has been
\* finalized.
C29_StoreHoldsLiveGroupsOnly ==
    /\ Entries \subseteq Started
    /\ Cardinality(Entries) <= Cardinality(Started)
    /\ Started = {} => \A p \in CtxPtrs : aggregateDataStore[p] = NilData

\* C29: group 1 was finalized and its entry is gone while group 2 keeps its own
C29_Witness ==
    /\ lastCall.tramp = "final"
    /\ lastCall.g = 1
    /\ pre # NilData
    /\ Entries = {2}
    /\ Started = {2}

(***************************************************************************)
(* Properties of the lock discipline of the aggregate context store.       *)
(***************************************************************************)

\* C26: every read of the store happens under the read lock and every insert
\* or removal under the write lock, so that no insert or removal overlaps
\* another access, however the trampolines of the threads interleave.
C26_LockDiscipline ==
    \A t \in Threads :
        Accessing(t) =>
            /\ th[t].op = "Data" => t \in aggregateDataLock.r
            /\ Mutates(th[t].op) =>
                /\ aggregateDataLock.w = t
                /\ \A u \in Threads \ {t} : ~Accessing(u)

\* C26: one thread is inserting under the write lock while the other, in the
\* final trampoline of its group, waits for the lock to evict its entry
C26_Witness ==
    /\ th["t1"].at = "held"
    /\ th["t1"].op = "SetData"
    /\ aggregateDataLock.w = "t1"
    /\ th["t2"].at = "lock"
    /\ th["t2"].op = "delete"
    /\ aggregateDataStore[2] # NilData

(***************************************************************************)
(* Properties of the extension entry point and the hooks.                  *)
(***************************************************************************)

\* C23: a callback registered with RegisterRollbackHook is invoked once each
\* time the engine calls rollback_hook_tramp with the saved handle, and the
\* trampoline completes without failure.
C23_RollbackCallbackInvoked ==
    extCall.op = "rollback_hook_tramp" =>
        extCall.outcome = "ok" /\ extCall.invoked = 1

\* C23, as the code behaves: the saved value is a func() int, the trampoline
\* asserts func(), so every call of rollback_hook_tramp panics before the
\* callback runs.
C23_RollbackTrampPanics ==
    extCall.op = "rollback_hook_tramp" =>
        extCall.outcome = "panic" /\ extCall.invoked = 0

\* C23: the engine called the trampoline with the handle of a live rollback
\* hook, whose value the registry still binds, and the trampoline panicked
C23_RollbackPanicked ==
    /\ extCall.op = "rollback_hook_tramp"
    /\ extCall.outcome = "panic"
    /\ \E o \in HookObj("rollback_hook", rollbackArg) :
        Restore(store, rollbackArg) = objs[o].val

CommitHooks == {o \in Ids : objs[o].kind = "commit_hook"}

\* C24: after any sequence of RegisterCommitHook calls at most one commit-hook
\* handle is live; a replaced handle was released exactly once and a live one
\* never; after a call with a nil callback no hook is installed; the argument
\* the engine holds is the handle of the most recent non-nil callback, still
\* bound to its value, or none.
C24_OneLiveCommitHook ==
    /\ Cardinality(Live("commit_hook")) <= 1
    /\ \A o \in CommitHooks :
        /\ objs[o].st \in {"live", "replaced"}
        /\ objs[o].st = "live" =>
            /\ objs[o].unrefs = 0
            /\ commitArg = objs[o].h
            /\ Restore(store, commitArg) = objs[o].val
            /\ \A q \in CommitHooks : q <= o
        /\ objs[o].st = "replaced" =>
            /\ objs[o].unrefs = 1
            /\ Restore(store, objs[o].h) # objs[o].val
    /\ commitArg # Nil => HookObj("commit_hook", commitArg) # {}
    /\ (extCall.op = "RegisterCommitHook" /\ extCall.fn = "nil") =>
        commitArg = Nil /\ Live("commit_hook") = {}

\* C24: a second callback replaced the first at the same address, then the
\* engine ran the hook, which restored the second callback
C24_Witness ==
    /\ extCall.op = "commit_hook_tramp"
    /\ extCall.invoked = 1
    /\ \E o, q \in CommitHooks :
        /\ o < q
        /\ objs[o].st = "replaced"
        /\ objs[q].st = "live"
        /\ objs[q].h = commitArg

\* C25: when the registered function returns a non-nil error,
\* go_sqlite3_extension_init returns a status other than SQLITE_OK and stores
\* the error's text in the message out-parameter.
C25_InitErrorReported ==
    (extCall.op = "init" /\ extCall.err # NoError) =>
        extCall.status # SQLITE_OK /\ extCall.msg = extCall.err

\* C25, as the code behaves: the text is stored, and the status is the code
\* the registered function returned, whatever it is.
C25_InitReturnsFunctionCode ==
    (extCall.op = "init" /\ extCall.outcome = "ok") =>
        /\ extCall.status = extension.code
        /\ extCall.msg = (IF extCall.err # NoError THEN extCall.err ELSE NoMsg)

\* C25: the function returned SQLITE_OK with an error: the entry point set the
\* message and reported success
C25_ErrorWithOkStatus ==
    /\ extCall.op = "init"
    /\ extCall.err = "boom"
    /\ extCall.msg = "boom"
    /\ extCall.status = SQLITE_OK

(***************************************************************************)
(* Properties of the fired flag and of the termination of Stmt.Step.       *)
(***************************************************************************)

\* C33: every read and write of the fired flag is made while holding the
\* note's mutex: the waiter's clearing and testing, the notifier's setting.
C33_FiredAccessUnderMutex ==
    /\ pc \in {"w_clear", "w_check"} => mu = "waiter"
    /\ npc = "set" => mu = "notifier"

\* C33, as the code behaves: the test and the set are made under the mutex;
\* the clearing (un->fired = 0) is made before the mutex is ever taken.
C33_TestAndSetUnderMutex ==
    /\ pc = "w_check" => mu = "waiter"
    /\ npc = "set" => mu = "notifier"
    /\ pc = "w_clear" => mu # "waiter"

\* C33: the waiter is about to clear the flag without the mutex while the
\* notifier, holding the mutex, is about to set it (the callback armed by an
\* earlier wait that a spurious wake-up ended)
C33_ClearRacesWithFire ==
    /\ pc = "w_clear"
    /\ npc = "set"
    /\ mu = "notifier"

\* C34: Stmt.Step terminates. When the threads are scheduled, every armed
\* notification is eventually delivered by the engine and sqlite3_step is
\* eventually answered with a status other than SQLITE_LOCKED_SHAREDCACHE
\* (the fairness of SpecStepFair), a Step that was entered returns.
C34_StepTerminates == (pc # "idle") ~> (pc = "idle")

\* C34: a Step returned after it had waited for a notification, been woken by
\* the signal and retried
C34_Witness ==
    /\ pc = "idle"
    /\ wokenBy = "signal"
    /\ native = <<"step", "wait_ok", "reset", "step">>
    /\ ret.err = SQLITE_OK

(***************************************************************************)
(* Properties of the Sum function on mixed inputs.                         *)
(***************************************************************************)

\* SQL sum() of the rows q: NULL rows are skipped; no other row: NULL; only
\* integers: their integer sum; otherwise the floating-point sum of every
\* non-NULL row
NonNull(q) == SelectSeq(q, LAMBDA v : v.type # "NULL")
RECURSIVE IntTotal(_, _)
IntTotal(q, k) == IF k = 0 THEN Small(0) ELSE Add64(IntTotal(q, k - 1), q[k].n)
RECURSIVE FloatTotal(_, _)
FloatTotal(q, k) == IF k = 0 THEN Small(0) ELSE FAdd(FloatTotal(q, k - 1), Float(q[k]))
SqlSum(q) ==
    LET nn == NonNull(q) IN
    IF nn = <<>> THEN NullResult
    ELSE IF \A i \in 1..Len(nn) : nn[i].type = "INTEGER"
      THEN [kind |-> "int64", n |-> IntTotal(nn, Len(nn))]
      ELSE [kind |-> "float", n |-> FloatTotal(nn, Len(nn))]

\* the latest call is a Value on a group none of whose rows was inverted: the
\* frame holds every row stepped into it
ValueOfStepped ==
    /\ lastCall.tramp = "value"
    /\ lastCall.g \in Groups
    /\ ops[lastCall.g] = Len(frame[lastCall.g])

\* C40: the total Value reports is SQL sum() of the stepped rows: in a group
\* with integers and non-integers every non-NULL row counts, and a stepped
\* NULL changes neither the total nor its integer or approximate mode.
C40_SumFollowsSql ==
    ValueOfStepped => lastCall.out = SqlSum(frame[lastCall.g])

\* C40, as the code behaves: the total is SQL sum() when the stepped rows are
\* all integers or all floating-point numbers.
C40_SumOfOneKind ==
    (/\ ValueOfStepped
     /\ \E t \in {"INTEGER", "FLOAT"} :
           \A i \in 1..Len(frame[lastCall.g]) : frame[lastCall.g][i].type = t)
        => lastCall.out = SqlSum(frame[lastCall.g])

\* C40: 1 and 0.5 were stepped and Value reported 0.5: the integer is missing
C40_IntegerDropped ==
    /\ ValueOfStepped
    /\ frame[lastCall.g] = <<IntV(Small(1)), FloatV(Small(1))>>
    /\ lastCall.out = [kind |-> "float", n |-> Small(1)]
    /\ SqlSum(frame[lastCall.g]) = [kind |-> "float", n |-> Small(3)]

(***************************************************************************)
(* Properties of the optional entries CreateModule wires.                  *)
(***************************************************************************)

Wired(slot) == slot # "nil"

\* C32: a module that was handed to the engine has the update entry exactly
\* when ReadOnly is false, begin, commit and rollback exactly when
\* Transactional is set, sync exactly when Transactional and TwoPhaseCommit
\* are both set, and never a find-function entry; so x_sync_tramp is reached
\* only for a module that declared both.
C32_OptionalEntriesAsDeclared ==
    /\ sqliteModule.saved =>
        /\ Wired(sqliteModule.xUpdate) <=> ~sqliteModule.opt.ReadOnly
        /\ Wired(sqliteModule.xBegin) <=> sqliteModule.opt.Transactional
        /\ Wired(sqliteModule.xCommit) <=> sqliteModule.opt.Transactional
        /\ Wired(sqliteModule.xRollback) <=> sqliteModule.opt.Transactional
        /\ Wired(sqliteModule.xSync) <=>
             (sqliteModule.opt.Transactional /\ sqliteModule.opt.TwoPhaseCommit)
        /\ ~Wired(sqliteModule.xFindFunction)
    /\ vcall.tramp = "x_sync_tramp" =>
        sqliteModule.opt.Transactional /\ sqliteModule.opt.TwoPhaseCommit

\* C32: a module registered as transactional and overloadable without
\* two-phase commit took a commit call; it has neither a sync nor a
\* find-function entry
C32_Witness ==
    /\ sqliteModule.state = "registered"
    /\ sqliteModule.opt.Transactional
    /\ ~sqliteModule.opt.TwoPhaseCommit
    /\ sqliteModule.opt.Overloadable
    /\ vcall.tramp = "x_commit_tramp"
    /\ sqliteModule.xSync = "nil"
    /\ sqliteModule.xFindFunction = "nil"

(***************************************************************************)
(* Properties of the handles saved before a native allocation.             *)
(***************************************************************************)

\* the handles whose native table or cursor struct could not be allocated:
\* the trampoline returned SQLITE_NOMEM and the engine holds no object for them
Orphans == {o \in Ids : objs[o].st = "orphan"}

\* C37: no handle is leaked when the native allocation fails: the trampoline
\* returns SQLITE_NOMEM and the handle it saved is not left bound in the
\* registry.
C37_NoHandleLeakedOnNomem ==
    \A o \in Orphans :
        /\ objs[o].rc = SQLITE_NOMEM
        /\ Restore(store, objs[o].h) # objs[o].val

\* C37, as the code behaves: the trampoline returns SQLITE_NOMEM, and the
\* handle it saved stays bound to its value and is never released.
C37_OrphanStaysBound ==
    \A o \in Orphans :
        /\ objs[o].rc = SQLITE_NOMEM
        /\ objs[o].unrefs = 0
        /\ Restore(store, objs[o].h) = objs[o].val

\* C37: the cursor of an Open whose allocation failed is still bound after its
\* table was torn down
C37_HandleLeaked ==
    \E c \in Orphans :
        /\ objs[c].kind = "cursor"
        /\ objs[objs[c].parent].st \in TornDown
        /\ Restore(store, objs[c].h) = objs[c].val

(***************************************************************************)
(* Properties of a failed allocation inside _allocate_string.              *)
(***************************************************************************)

\* C31: when _allocate_string gets a null pointer from sqlite3_malloc inside a
\* virtual-table trampoline, the trampoline returns SQLITE_NOMEM to the
\* engine: nothing is written through the null pointer, and no success is
\* reported with the message missing.
C31_StringNomemReported ==
    vcall.tramp = "allocate_string" =>
        /\ ~aborted
        /\ vcall.op # "fault"
        /\ vcall.status = SQLITE_NOMEM

\* C31: what the code does: the bytes are written through the null pointer,
\* and the process ends inside the trampoline; a status of SQLITE_NOMEM comes
\* only from the allocation of a table or cursor struct
C31_StringNomemFaults ==
    /\ vcall.tramp = "allocate_string" => (aborted /\ vcall.op = "fault")
    /\ vcall.status = SQLITE_NOMEM =>
          /\ vcall.tramp \in {"x_connect_tramp", "x_create_tramp", "x_open_tramp"}
          /\ ~IsFailure(vcall.err)

\* C31: Filter returned an error with a text, the allocation of its copy
\* failed, and the trampoline wrote through the null pointer
C31_NullPointerWritten ==
    /\ vcall.tramp = "allocate_string"
    /\ vcall.op = "fault"
    /\ vcall.detail.caller = "x_filter_tramp"
    /\ vcall.err.kind = "other"
    /\ aborted

(***************************************************************************)
(* Properties of toValues and of Context.ResultText.                       *)
(***************************************************************************)

\* C35: for every argument count the engine passes to a function, filter or
\* update trampoline, toValues returns exactly that many values in the
\* engine's order (none for a count of zero), and never fails.
C35_EveryCountConverted ==
    values.tramp # "none" => (~values.panic /\ values.out = Cells(values.n))

\* C35: what the code does: counts up to the length of the array are
\* converted, any higher count panics
C35_CountsWithinArrayConverted ==
    values.tramp # "none" =>
        IF values.n <= ArraySize
          THEN ~values.panic /\ values.out = Cells(values.n) /\ Len(values.out) = values.n
          ELSE values.panic

\* C35: a write to a table of 126 columns passed 128 cells, and toValues
\* panicked
C35_WideTableUpdatePanics ==
    /\ values.tramp = "x_update_tramp"
    /\ values.n = ArraySize + 1
    /\ values.panic

\* C36: Context.ResultText(v) makes the result the text v for every string
\* v; after ResultText("") the result is a text of length zero, not SQL NULL.
C36_ResultIsTheText ==
    result.call = "ResultText" => result.out = SqlText(result.v)

\* C36: what the code does: a string that is not empty becomes the text
\* result, the empty string becomes SQL NULL
C36_EmptyStringGivesNull ==
    result.call = "ResultText" =>
        result.out = IF result.v = <<>> THEN SqlNull ELSE SqlText(result.v)

\* C36: ResultText("") was called and the engine holds SQL NULL
C36_EmptyTextLost ==
    /\ result.call = "ResultText"
    /\ result.v = <<>>
    /\ result.out.type = "NULL"

(***************************************************************************)
(* Properties of the scan of the csv cursor.                               *)
(***************************************************************************)

\* C38: every Filter on an open CsvCursor restarts the scan: after it the
\* cursor is on the first data row of the file, or at EOF when the file has
\* no data rows, however many rows were read before; and Eof is true exactly
\* when the latest positioning call ran past the last row.
C38_FilterRestartsScan ==
    /\ csvScan.op = "Filter" =>
          IF DataRows = 0 THEN CsvEof(csvCursor)
          ELSE ~CsvEof(csvCursor) /\ csvCursor.current = FirstDataRow
    /\ csvScan.op # "none" => (CsvEof(csvCursor) <=> csvScan.eof)

\* C38: what the code does: only the first Filter of a cursor starts at the
\* first data row; every Filter reads on from where the reader stands, as
\* Next does, and counts its row as rowid 1. Eof is true exactly when the
\* latest positioning call met the end of the file.
C38_FilterReadsOn ==
    /\ (csvScan.op = "Filter" /\ csvScan.filters = 1) =>
          IF DataRows = 0 THEN CsvEof(csvCursor)
          ELSE ~CsvEof(csvCursor) /\ csvCursor.current = FirstDataRow
    /\ (csvScan.op = "Filter" /\ ~CsvEof(csvCursor)) =>
          /\ csvCursor.current = csvCursor.csv
          /\ csvCursor.current >= FirstDataRow + csvScan.filters - 1
          /\ csvCursor.rowid = 1
    /\ csvScan.op # "none" => (CsvEof(csvCursor) <=> csvScan.eof)
    /\ (csvScan.op # "none" /\ CsvEof(csvCursor)) => csvCursor.csv = csvTable.lines

\* C38: a file of two data rows was read to its end, and the second Filter
\* left the cursor at EOF instead of on the first row
C38_SecondFilterAtEof ==
    /\ csvTable.lines = 2
    /\ ~csvTable.skipHeader
    /\ csvScan.op = "Filter"
    /\ csvScan.filters = 2
    /\ CsvEof(csvCursor)
    /\ csvCursor.current = 2

(***************************************************************************)
(* Properties of Conn.Exec.                                                *)
(***************************************************************************)

\* C39: after a successful Prepare, Exec finalizes the statement exactly once
\* on every path, and only as it returns; fn is called once for every row
\* Step returned, in order; no Step and no fn call follows an error; and the
\* error of Finalize is the result only when there was no error before it.
C39_ExecFinalizesOnce ==
    /\ exec.finalized = IF exec.prepared /\ exec.pc = "returned" THEN 1 ELSE 0
    /\ exec.called = [i \in 1 .. Len(exec.called) |-> i]
    /\ Len(exec.called) = IF exec.fn = "nil" THEN 0
                          ELSE IF exec.pc = "fn" THEN exec.stepped - 1
                          ELSE exec.stepped
    /\ exec.pc \in {"step", "fn"} => (exec.err = NoError /\ exec.earlier = NoError)
    /\ exec.earlier \in {"trailing", "step"} =>
          Len(exec.called) = (IF exec.fn = "nil" THEN 0 ELSE exec.stepped)
    /\ (exec.pc = "returned" /\ exec.prepared) =>
          exec.err = IF exec.earlier # NoError THEN exec.earlier ELSE exec.ferr
    /\ (exec.pc = "returned" /\ exec.prepared /\ exec.earlier = NoError) =>
          exec.stepped = exec.rows

\* C39: fn failed on the first of two rows: Exec returned its error, the
\* second row was never stepped, and the statement was finalized once
C39_Witness ==
    /\ exec.pc = "returned"
    /\ exec.rows = 2
    /\ exec.stepped = 1
    /\ exec.called = <<1>>
    /\ exec.err = "callback"
    /\ exec.finalized = 1

(***************************************************************************)
(* Specifications, one per part of the bridge.                             *)
(***************************************************************************)


\* _unlock_note_alloc leaves `fired` uninitialised (malloc, no memset)
InitWait ==
    /\ fired \in {0, 1}
    /\ mu = "free"
    /\ pc = "idle"
    /\ res = SQLITE_OK
    /\ ret = NoRet
    /\ pending = FALSE
    /\ npc = "idle"
    /\ stepCalls = 0
    /\ waitCalls = 0
    /\ wokenBy = "none"
    /\ bindErr = SQLITE_OK
    /\ bindLog = <<>>
    /\ native = <<>>
    /\ aggregateDataLock = Unlocked
    /\ th = [t \in Threads |-> Outside]
    /\ extension = NilExtension
    /\ commitArg = Nil
    /\ rollbackArg = Nil
    /\ extCall = NoExtCall
    /\ values = NoValues
    /\ result = NoResult
    /\ csvTable = NoCsvTable
    /\ csvCursor = NoCsvCursor
    /\ csvScan = NoCsvScan
    /\ exec = NoExec
    /\ store = [a \in Addr |-> Nil]
    /\ objs = <<>>
    /\ last = NoLast
    /\ stale = FALSE
    /\ aggregateDataStore = [p \in CtxPtrs |-> NilData]
    /\ aggCtx = [g \in Groups |-> FALSE]
    /\ frame = [g \in Groups |-> <<>>]
    /\ ops = [g \in Groups |-> 0]
    /\ ref = [g \in Groups |-> NilData]
    /\ peeked = [g \in Groups |-> "no"]
    /\ lastCall = NoCall
    /\ pre = NilData
    /\ crashed = FALSE
    /\ sqliteModule = NoModule
    /\ vtab = NoTable
    /\ lost = FALSE
    /\ vcall = NoVCall
    /\ aborted = FALSE
    /\ series = [g \in Groups |-> <<>>]

SpecWait == InitWait /\ [][NextWait]_vars

\* the threads are scheduled: a thread that can take its next statement does
SpecWaitFair == SpecWait /\ WF_vars(WaiterStep) /\ WF_vars(NotifierStep)

\* the threads are scheduled, the engine delivers every armed notification and
\* answers every sqlite3_step
SpecStepFair ==
    /\ InitWait
    /\ [][NextStep]_vars
    /\ WF_vars(StmtStep)
    /\ WF_vars(WaiterStep)
    /\ WF_vars(NotifierStep)
    /\ WF_vars(sqlite3_step_answers)
    /\ WF_vars(unlock_notify_cb)

InitReg ==
    /\ store = [a \in Addr |-> Nil]
    /\ objs = <<>>
    /\ last = NoLast
    /\ stale = FALSE
    /\ fired = 0
    /\ mu = "free"
    /\ pc = "idle"
    /\ res = SQLITE_OK
    /\ ret = NoRet
    /\ pending = FALSE
    /\ npc = "idle"
    /\ stepCalls = 0
    /\ waitCalls = 0
    /\ wokenBy = "none"
    /\ bindErr = SQLITE_OK
    /\ bindLog = <<>>
    /\ native = <<>>
    /\ aggregateDataLock = Unlocked
    /\ th = [t \in Threads |-> Outside]
    /\ extension = NilExtension
    /\ commitArg = Nil
    /\ rollbackArg = Nil
    /\ extCall = NoExtCall
    /\ values = NoValues
    /\ result = NoResult
    /\ csvTable = NoCsvTable
    /\ csvCursor = NoCsvCursor
    /\ csvScan = NoCsvScan
    /\ exec = NoExec
    /\ aggregateDataStore = [p \in CtxPtrs |-> NilData]
    /\ aggCtx = [g \in Groups |-> FALSE]
    /\ frame = [g \in Groups |-> <<>>]
    /\ ops = [g \in Groups |-> 0]
    /\ ref = [g \in Groups |-> NilData]
    /\ peeked = [g \in Groups |-> "no"]
    /\ lastCall = NoCall
    /\ pre = NilData
    /\ crashed = FALSE
    /\ sqliteModule = NoModule
    /\ vtab = NoTable
    /\ lost = FALSE
    /\ vcall = NoVCall
    /\ aborted = FALSE
    /\ series = [g \in Groups |-> <<>>]

SpecReg == InitReg /\ [][NextReg]_vars

InitAgg ==
    /\ aggregateDataStore = [p \in CtxPtrs |-> NilData]
    /\ aggCtx = [g \in Groups |-> FALSE]
    /\ frame = [g \in Groups |-> <<>>]
    /\ ops = [g \in Groups |-> 0]
    /\ ref = [g \in Groups |-> NilData]
    /\ peeked = [g \in Groups |-> "no"]
    /\ lastCall = NoCall
    /\ pre = NilData
    /\ crashed = FALSE
    /\ sqliteModule = NoModule
    /\ vtab = NoTable
    /\ lost = FALSE
    /\ vcall = NoVCall
    /\ aborted = FALSE
    /\ series = [g \in Groups |-> <<>>]
    /\ store = [a \in Addr |-> Nil]
    /\ objs = <<>>
    /\ last = NoLast
    /\ stale = FALSE
    /\ fired = 0
    /\ mu = "free"
    /\ pc = "idle"
    /\ res = SQLITE_OK
    /\ ret = NoRet
    /\ pending = FALSE
    /\ npc = "idle"
    /\ stepCalls = 0
    /\ waitCalls = 0
    /\ wokenBy = "none"
    /\ bindErr = SQLITE_OK
    /\ bindLog = <<>>
    /\ native = <<>>
    /\ aggregateDataLock = Unlocked
    /\ th = [t \in Threads |-> Outside]
    /\ extension = NilExtension
    /\ commitArg = Nil
    /\ rollbackArg = Nil
    /\ extCall = NoExtCall
    /\ values = NoValues
    /\ result = NoResult
    /\ csvTable = NoCsvTable
    /\ csvCursor = NoCsvCursor
    /\ csvScan = NoCsvScan
    /\ exec = NoExec

SpecAgg == InitAgg /\ [][NextAgg]_vars

InitSum ==
    /\ aggregateDataStore = [p \in CtxPtrs |-> NilData]
    /\ aggCtx = [g \in Groups |-> FALSE]
    /\ frame = [g \in Groups |-> <<>>]
    /\ ops = [g \in Groups |-> 0]
    /\ ref = [g \in Groups |-> NilData]
    /\ peeked = [g \in Groups |-> "no"]
    /\ lastCall = NoCall
    /\ pre = NilData
    /\ crashed = FALSE
    /\ sqliteModule = NoModule
    /\ vtab = NoTable
    /\ lost = FALSE
    /\ vcall = NoVCall
    /\ aborted = FALSE
    /\ \E q \in TestSeries : series = [g \in Groups |-> IF g = 1 THEN q ELSE <<>>]
    /\ store = [a \in Addr |-> Nil]
    /\ objs = <<>>
    /\ last = NoLast
    /\ stale = FALSE
    /\ fired = 0
    /\ mu = "free"
    /\ pc = "idle"
    /\ res = SQLITE_OK
    /\ ret = NoRet
    /\ pending = FALSE
    /\ npc = "idle"
    /\ stepCalls = 0
    /\ waitCalls = 0
    /\ wokenBy = "none"
    /\ bindErr = SQLITE_OK
    /\ bindLog = <<>>
    /\ native = <<>>
    /\ aggregateDataLock = Unlocked
    /\ th = [t \in Threads |-> Outside]
    /\ extension = NilExtension
    /\ commitArg = Nil
    /\ rollbackArg = Nil
    /\ extCall = NoExtCall
    /\ values = NoValues
    /\ result = NoResult
    /\ csvTable = NoCsvTable
    /\ csvCursor = NoCsvCursor
    /\ csvScan = NoCsvScan
    /\ exec = NoExec

SpecSum == InitSum /\ [][NextSum]_vars

InitVtab ==
    /\ aggregateDataStore = [p \in CtxPtrs |-> NilData]
    /\ aggCtx = [g \in Groups |-> FALSE]
    /\ frame = [g \in Groups |-> <<>>]
    /\ ops = [g \in Groups |-> 0]
    /\ ref = [g \in Groups |-> NilData]
    /\ peeked = [g \in Groups |-> "no"]
    /\ lastCall = NoCall
    /\ pre = NilData
    /\ crashed = FALSE
    /\ sqliteModule = NoModule
    /\ vtab = NoTable
    /\ lost = FALSE
    /\ vcall = NoVCall
    /\ aborted = FALSE
    /\ series = [g \in Groups |-> <<>>]
    /\ store = [a \in Addr |-> Nil]
    /\ objs = <<>>
    /\ last = NoLast
    /\ stale = FALSE
    /\ fired = 0
    /\ mu = "free"
    /\ pc = "idle"
    /\ res = SQLITE_OK
    /\ ret = NoRet
    /\ pending = FALSE
    /\ npc = "idle"
    /\ stepCalls = 0
    /\ waitCalls = 0
    /\ wokenBy = "none"
    /\ bindErr = SQLITE_OK
    /\ bindLog = <<>>
    /\ native = <<>>
    /\ aggregateDataLock = Unlocked
    /\ th = [t \in Threads |-> Outside]
    /\ extension = NilExtension
    /\ commitArg = Nil
    /\ rollbackArg = Nil
    /\ extCall = NoExtCall
    /\ values = NoValues
    /\ result = NoResult
    /\ csvTable = NoCsvTable
    /\ csvCursor = NoCsvCursor
    /\ csvScan = NoCsvScan
    /\ exec = NoExec

SpecVtab == InitVtab /\ [][NextVtab]_vars

InitLock ==
    /\ aggregateDataStore = [p \in CtxPtrs |-> NilData]
    /\ aggCtx = [g \in Groups |-> FALSE]
    /\ frame = [g \in Groups |-> <<>>]
    /\ ops = [g \in Groups |-> 0]
    /\ ref = [g \in Groups |-> NilData]
    /\ peeked = [g \in Groups |-> "no"]
    /\ lastCall = NoCall
    /\ pre = NilData
    /\ crashed = FALSE
    /\ sqliteModule = NoModule
    /\ vtab = NoTable
    /\ lost = FALSE
    /\ vcall = NoVCall
    /\ aborted = FALSE
    /\ series = [g \in Groups |-> <<>>]
    /\ store = [a \in Addr |-> Nil]
    /\ objs = <<>>
    /\ last = NoLast
    /\ stale = FALSE
    /\ fired = 0
    /\ mu = "free"
    /\ pc = "idle"
    /\ res = SQLITE_OK
    /\ ret = NoRet
    /\ pending = FALSE
    /\ npc = "idle"
    /\ stepCalls = 0
    /\ waitCalls = 0
    /\ wokenBy = "none"
    /\ bindErr = SQLITE_OK
    /\ bindLog = <<>>
    /\ native = <<>>
    /\ aggregateDataLock = Unlocked
    /\ th = [t \in Threads |-> Outside]
    /\ extension = NilExtension
    /\ commitArg = Nil
    /\ rollbackArg = Nil
    /\ extCall = NoExtCall
    /\ values = NoValues
    /\ result = NoResult
    /\ csvTable = NoCsvTable
    /\ csvCursor = NoCsvCursor
    /\ csvScan = NoCsvScan
    /\ exec = NoExec

SpecLock == InitLock /\ [][NextLock]_vars

InitExt ==
    /\ aggregateDataStore = [p \in CtxPtrs |-> NilData]
    /\ aggCtx = [g \in Groups |-> FALSE]
    /\ frame = [g \in Groups |-> <<>>]
    /\ ops = [g \in Groups |-> 0]
    /\ ref = [g \in Groups |-> NilData]
    /\ peeked = [g \in Groups |-> "no"]
    /\ lastCall = NoCall
    /\ pre = NilData
    /\ crashed = FALSE
    /\ sqliteModule = NoModule
    /\ vtab = NoTable
    /\ lost = FALSE
    /\ vcall = NoVCall
    /\ aborted = FALSE
    /\ series = [g \in Groups |-> <<>>]
    /\ store = [a \in Addr |-> Nil]
    /\ objs = <<>>
    /\ last = NoLast
    /\ stale = FALSE
    /\ fired = 0
    /\ mu = "free"
    /\ pc = "idle"
    /\ res = SQLITE_OK
    /\ ret = NoRet
    /\ pending = FALSE
    /\ npc = "idle"
    /\ stepCalls = 0
    /\ waitCalls = 0
    /\ wokenBy = "none"
    /\ bindErr = SQLITE_OK
    /\ bindLog = <<>>
    /\ native = <<>>
    /\ aggregateDataLock = Unlocked
    /\ th = [t \in Threads |-> Outside]
    /\ extension = NilExtension
    /\ commitArg = Nil
    /\ rollbackArg = Nil
    /\ extCall = NoExtCall
    /\ values = NoValues
    /\ result = NoResult
    /\ csvTable = NoCsvTable
    /\ csvCursor = NoCsvCursor
    /\ csvScan = NoCsvScan
    /\ exec = NoExec

SpecExt == InitExt /\ [][NextExt]_vars

InitCall ==
    /\ aggregateDataStore = [p \in CtxPtrs |-> NilData]
    /\ aggCtx = [g \in Groups |-> FALSE]
    /\ frame = [g \in Groups |-> <<>>]
    /\ ops = [g \in Groups |-> 0]
    /\ ref = [g \in Groups |-> NilData]
    /\ peeked = [g \in Groups |-> "no"]
    /\ lastCall = NoCall
    /\ pre = NilData
    /\ crashed = FALSE
    /\ sqliteModule = NoModule
    /\ vtab = NoTable
    /\ lost = FALSE
    /\ vcall = NoVCall
    /\ aborted = FALSE
    /\ series = [g \in Groups |-> <<>>]
    /\ store = [a \in Addr |-> Nil]
    /\ objs = <<>>
    /\ last = NoLast
    /\ stale = FALSE
    /\ fired = 0
    /\ mu = "free"
    /\ pc = "idle"
    /\ res = SQLITE_OK
    /\ ret = NoRet
    /\ pending = FALSE
    /\ npc = "idle"
    /\ stepCalls = 0
    /\ waitCalls = 0
    /\ wokenBy = "none"
    /\ bindErr = SQLITE_OK
    /\ bindLog = <<>>
    /\ native = <<>>
    /\ aggregateDataLock = Unlocked
    /\ th = [t \in Threads |-> Outside]
    /\ extension = NilExtension
    /\ commitArg = Nil
    /\ rollbackArg = Nil
    /\ extCall = NoExtCall
    /\ values = NoValues
    /\ result = NoResult
    /\ csvTable = NoCsvTable
    /\ csvCursor = NoCsvCursor
    /\ csvScan = NoCsvScan
    /\ exec = NoExec

SpecCall == InitCall /\ [][NextCall]_vars

InitCsv ==
    /\ aggregateDataStore = [p \in CtxPtrs |-> NilData]
    /\ aggCtx = [g \in Groups |-> FALSE]
    /\ frame = [g \in Groups |-> <<>>]
    /\ ops = [g \in Groups |-> 0]
    /\ ref = [g \in Groups |-> NilData]
    /\ peeked = [g \in Groups |-> "no"]
    /\ lastCall = NoCall
    /\ pre = NilData
    /\ crashed = FALSE
    /\ sqliteModule = NoModule
    /\ vtab = NoTable
    /\ lost = FALSE
    /\ vcall = NoVCall
    /\ aborted = FALSE
    /\ series = [g \in Groups |-> <<>>]
    /\ store = [a \in Addr |-> Nil]
    /\ objs = <<>>
    /\ last = NoLast
    /\ stale = FALSE
    /\ fired = 0
    /\ mu = "free"
    /\ pc = "idle"
    /\ res = SQLITE_OK
    /\ ret = NoRet
    /\ pending = FALSE
    /\ npc = "idle"
    /\ stepCalls = 0
    /\ waitCalls = 0
    /\ wokenBy = "none"
    /\ bindErr = SQLITE_OK
    /\ bindLog = <<>>
    /\ native = <<>>
    /\ aggregateDataLock = Unlocked
    /\ th = [t \in Threads |-> Outside]
    /\ extension = NilExtension
    /\ commitArg = Nil
    /\ rollbackArg = Nil
    /\ extCall = NoExtCall
    /\ values = NoValues
    /\ result = NoResult
    /\ csvTable = NoCsvTable
    /\ csvCursor = NoCsvCursor
    /\ csvScan = NoCsvScan
    /\ exec = NoExec

SpecCsv == InitCsv /\ [][NextCsv]_vars

InitExec ==
    /\ aggregateDataStore = [p \in CtxPtrs |-> NilData]
    /\ aggCtx = [g \in Groups |-> FALSE]
    /\ frame = [g \in Groups |-> <<>>]
    /\ ops = [g \in Groups |-> 0]
    /\ ref = [g \in Groups |-> NilData]
    /\ peeked = [g \in Groups |-> "no"]
    /\ lastCall = NoCall
    /\ pre = NilData
    /\ crashed = FALSE
    /\ sqliteModule = NoModule
    /\ vtab = NoTable
    /\ lost = FALSE
    /\ vcall = NoVCall
    /\ aborted = FALSE
    /\ series = [g \in Groups |-> <<>>]
    /\ store = [a \in Addr |-> Nil]
    /\ objs = <<>>
    /\ last = NoLast
    /\ stale = FALSE
    /\ fired = 0
    /\ mu = "free"
    /\ pc = "idle"
    /\ res = SQLITE_OK
    /\ ret = NoRet
    /\ pending = FALSE
    /\ npc = "idle"
    /\ stepCalls = 0
    /\ waitCalls = 0
    /\ wokenBy = "none"
    /\ bindErr = SQLITE_OK
    /\ bindLog = <<>>
    /\ native = <<>>
    /\ aggregateDataLock = Unlocked
    /\ th = [t \in Threads |-> Outside]
    /\ extension = NilExtension
    /\ commitArg = Nil
    /\ rollbackArg = Nil
    /\ extCall = NoExtCall
    /\ values = NoValues
    /\ result = NoResult
    /\ csvTable = NoCsvTable
    /\ csvCursor = NoCsvCursor
    /\ csvScan = NoCsvScan
    /\ exec = NoExec

SpecExec == InitExec /\ [][NextExec]_vars

====
